---- MODULE Spec2Model ----
(***************************************************************************)
(* Hyperparameter-search trial execution and result aggregation            *)
(* (ludwig/hyperopt/execution.py): the per-trial runner with its direct    *)
(* and delegated modes, checkpoint staging, resume, the metric extractor,  *)
(* the search-space codec and the ordering / backfill selection of         *)
(* execute.                                                                *)
(***************************************************************************)
EXTENDS Integers, Sequences, FiniteSets, TLC

\* ------------------------------------------------------------------ bounds
\* training steps one trial may take
MaxSteps == 1
\* evaluation rounds (eval-end events) one trial may run
MaxEvals == 1
\* metric values are drawn from 1..MaxVal
MaxVal == 2
\* longest metric history enumerated for the metric extractor
MaxHist == 3
\* concurrent checkpoint() calls on one checkpoint directory
NCalls == 2
\* training workers of one trial on one node (local ranks 0..NWorkers-1)
NWorkers == 3
\* entries in one parameter's values / categories list
MaxEntries == 2
\* I/O errors (copytree, rename) injected into one trial's checkpoint() calls
MaxFaults == 1
\* trials of one search (rows of analysis.results_df)
MaxTrials == 2
\* reported metric scores are drawn from 1..MaxScore
MaxScore == 3
\* checkpoint_<n> directories of one trial
MaxCkpts == 2
MaxCallbacks == 2

\* --------------------------------------------------------------- constants
TRAINING == "training"
VALIDATION == "validation"
TEST == "test"
MAXIMIZE == "maximize"
MINIMIZE == "minimize"
None == "None"
\* tune.run(..., max_failures=1): a failed trial is retried once
max_failures == 1

\* the executor's configured output feature (self.output_feature)
output_feature == "out"
\* a feature that is not the configured one
other_feature == "aux"
\* the metric names the model distinguishes (self.metric is one of them)
Metrics == {"accuracy", "loss"}

VARIABLES
    \* ---- executor configuration (RayTuneExecutor.__init__)
    metric,          \* self.metric
    goal,            \* self.goal
    eval_rounds,     \* the evaluation rounds the configured run goes through at most
    \* ---- one trial (_run_experiment)
    is_using_ray_backend, \* delegated mode when TRUE, direct mode when FALSE
    has_validation,  \* whether the training run evaluates a validation split
    dpc,             \* position of the trial driver in _run_experiment
    final,           \* TRUE once the poll loop was left (final drain)
    wpc,             \* position of the training run (the worker thread)
    progress_tracker,\* the training run's ProgressTracker
    last_steps,      \* RayTuneReportCallback.last_steps
    ray_queue,       \* the RayQueue of (progress snapshot, checkpoint ref)
    qsize,           \* check_queue's local qsize
    results,         \* check_queue's batch still to be handled
    stats,           \* the stats list _run appends to
    slots,           \* checkpoint_<n>/model of the trial: n -> staged model
    faults,          \* I/O errors injected so far
    produced,        \* history: every pair handed to _checkpoint_progress
    log              \* history: checkpoint() calls and tune.report calls

VARIABLES
    \* ---- concurrent checkpoint() calls on one checkpoint directory
    fs,              \* the directories under checkpoint_dir: path -> content
    cpc,             \* position of each call in checkpoint()
    save_path,       \* each call's save_path: the files of the model directory
    rename_failed,   \* history: the calls whose os.rename raised
    io_faults        \* I/O errors injected so far

ckptVars == <<fs, cpc, save_path, rename_failed, io_faults>>

VARIABLES
    \* ---- resuming a delegated trial (on_train_start, on_trainer_train_setup)
    resume_ckpt_ref, \* RayTuneReportCallback.resume_ckpt_ref ("None" or a ref)
    rfs,             \* save_path, save_path + ".tmp" and ckpt_path/model
    rpc,             \* position of each training worker, by local rank
    before,          \* history: save_path when local rank 0 entered the handler
    move_failed,     \* history: safe_move_file raised in the current attempt
    failures         \* trial failures the scheduler has seen

resumeVars == <<resume_ckpt_ref, rfs, rpc, before, move_failed, failures>>

VARIABLES
    \* ---- the search-space codec (_get_search_space, decode_values)
    parameters,      \* the hyperopt parameters: name -> definition
    search_space,    \* the encoded definitions handed to the scheduler
    decode_ctx,      \* self.decode_ctx: name -> decode function
    config,          \* the sampled config a trial is started with
    picked,          \* history: which entry of each list was sampled
    decoded,         \* decode_values(config, decode_ctx)
    search_space_error, \* "None", or the exception _get_search_space raised
    kpc              \* position in encode / sample / decode

codecVars == <<parameters, search_space, decode_ctx, config, picked, decoded,
               search_space_error, kpc>>

VARIABLES
    \* ---- one call of the metric extractor (get_metric_score)
    given_stats,     \* the train_stats argument
    score_out,       \* the value returned, or the RuntimeError raised
    mpc              \* position of the call

metricVars == <<given_stats, score_out, mpc>>

VARIABLES
    \* ---- result aggregation (execute after tune.run)
    validation_set,  \* execute's validation_set: "None", "empty" or "data"
    results_df,      \* analysis.results_df: the last result of every trial
    temp_ordered_trials, \* the records being post-processed
    ordered_trials,  \* the ordered trial records execute returns
    idx,             \* position of the backfill loop
    selected,        \* history: trial ids that entered the backfill branch
    cases,           \* history: what the backfill branch did for each trial id
    exec_error,      \* "None", or the exception execute raised
    epc              \* position in execute

execVars == <<validation_set, results_df, temp_ordered_trials, ordered_trials,
              idx, selected, cases, exec_error, epc>>

VARIABLES
    \* ---- the scoped best-checkpoint acquisition (_get_best_model_path)
    remote_checkpoint_dir, \* "None", or the remote directory synced down
    trial_path,      \* the trial directory: n -> the files of checkpoint_<n>
    marker_paths,    \* the markers _remove_partial_checkpoints has yet to visit
    at_prune,        \* history: trial_path when the pruning started
    at_query,        \* history: trial_path when the best checkpoint was queried
    best_model_path, \* what the caller was handed: "None" or "path"
    materialized,    \* the temporary local directory of as_directory() exists
    bpc              \* position in _get_best_model_path and its caller

bestVars == <<remote_checkpoint_dir, trial_path, marker_paths, at_prune,
              at_query, best_model_path, materialized, bpc>>

VARIABLES
    \* ---- the stopper handed to tune.run (CallbackStopper)
    callbacks_arg,   \* the callbacks argument of __init__: None or a list
    callbacks,       \* self.callbacks: what each should_stop_hyperopt answers
    stop_all_ret,    \* history: the last stop_all call, answers and return
    call_ret,        \* history: the last __call__, arguments and return
    spc              \* "off", "init" before __init__, "ready" after

stopVars == <<callbacks_arg, callbacks, stop_all_ret, call_ret, spc>>

VARIABLES
    \* ---- the start of a trial (_run_experiment before the training run)
    tune_config,     \* the keys callbacks put into tune_config
    sampled_config,  \* the config argument, then the local config
    hyperopt_dict_config, \* hyperopt_dict["config"]
    modified_config, \* the merged configuration
    trial_hyperparameters, \* trial_hyperparameters.json: <<>> or its text
    merged_params,   \* history: config as it was handed to the merge
    upc              \* position in the start of the trial

setupVars == <<tune_config, sampled_config, hyperopt_dict_config,
               modified_config, trial_hyperparameters, merged_params, upc>>

VARIABLES
    \* ---- one call of set_values(params, model_dict)
    params,          \* the params argument
    params_order,    \* the order in which params.items() yields the keys
    model_dict,      \* the model_dict argument, updated in place
    model_dict_before, \* history: model_dict when the call was made
    set_values_raised, \* "None", or the exception that left the call
    vpc              \* position of the call

overlayVars == <<params, params_order, model_dict, model_dict_before,
                 set_values_raised, vpc>>

VARIABLES
    \* ---- one call of RayTuneExecutor.sort_hyperopt_results
    executor,        \* self: the executor as __init__ left it
    hyperopt_results,\* the hyperopt_results argument
    sort_ret,        \* the list returned
    sort_raised,     \* "None", or the exception that left the call
    qpc              \* position of the call

sortVars == <<executor, hyperopt_results, sort_ret, sort_raised, qpc>>

trialVars == <<is_using_ray_backend, has_validation, dpc, final, wpc,
               progress_tracker, last_steps, ray_queue, qsize, results,
               stats, slots, faults, produced, log>>
confVars == <<metric, goal, eval_rounds>>
nonTrialVars == <<ckptVars, resumeVars, codecVars, metricVars, execVars,
                  bestVars, stopVars,
    setupVars, overlayVars, sortVars>>
nonCkptVars == <<trialVars, resumeVars, codecVars, metricVars, execVars,
                 bestVars, stopVars,
    setupVars, overlayVars, sortVars>>
nonResumeVars == <<trialVars, ckptVars, codecVars, metricVars, execVars,
                   bestVars, stopVars,
    setupVars, overlayVars, sortVars>>
nonCodecVars == <<trialVars, ckptVars, resumeVars, metricVars, execVars,
                  bestVars, stopVars,
    setupVars, overlayVars, sortVars>>
nonMetricVars == <<trialVars, ckptVars, resumeVars, codecVars, execVars,
                   bestVars, stopVars,
    setupVars, overlayVars, sortVars>>
nonExecVars == <<trialVars, ckptVars, resumeVars, codecVars, metricVars,
                 bestVars, stopVars,
    setupVars, overlayVars, sortVars>>
nonBestVars == <<trialVars, ckptVars, resumeVars, codecVars, metricVars,
                 execVars, stopVars,
    setupVars, overlayVars, sortVars>>
nonStopVars == <<trialVars, ckptVars, resumeVars, codecVars, metricVars,
                 execVars, bestVars, setupVars, overlayVars, sortVars>>
nonSetupVars == <<trialVars, ckptVars, resumeVars, codecVars, metricVars,
                  execVars, bestVars, stopVars, overlayVars, sortVars>>
nonOverlayVars == <<trialVars, ckptVars, resumeVars, codecVars, metricVars,
                    execVars, bestVars, stopVars, setupVars, sortVars>>
nonSortVars == <<trialVars, ckptVars, resumeVars, codecVars, metricVars,
                 execVars, bestVars, stopVars, setupVars, overlayVars>>
vars == <<confVars, trialVars, ckptVars, resumeVars, codecVars, metricVars,
          execVars, bestVars, stopVars, setupVars, overlayVars, sortVars>>

\* ------------------------------------------------------- metric extractor
Range(s) == {s[i] : i \in DOMAIN s}

\* ludwig.modules.metric_modules.get_best_function: the builtin max or min
get_best_function(m) == IF m = "loss" THEN "min" ELSE "max"

\* Python's max / min over enumerate(history) with key = pair[1]: the first
\* pair that no later pair strictly beats
RECURSIVE BestFrom(_, _, _, _)
BestFrom(fn, hist, i, best) ==
    IF i > Len(hist) THEN best
    ELSE LET better == IF fn = "max" THEN hist[i] > best[2]
                       ELSE hist[i] < best[2]
         IN BestFrom(fn, hist, i + 1, IF better THEN <<i - 1, hist[i]>> ELSE best)

\* the value of the last checkpoint instead of the best one
best_function_last(fn, hist) == <<Len(hist) - 1, hist[Len(hist)]>>

best_function(fn, hist) == BestFrom(fn, hist, 2, <<0, hist[1]>>)

_has_metric(train_stats, split) ==
    IF DOMAIN train_stats = {} THEN FALSE
    ELSE IF split # None /\ split \notin DOMAIN train_stats THEN FALSE
    ELSE LET s1 == IF split # None THEN train_stats[split] ELSE train_stats
         IN IF output_feature \notin DOMAIN s1 THEN FALSE
            ELSE IF metric \notin DOMAIN s1[output_feature] THEN FALSE
            ELSE Len(s1[output_feature][metric]) > 0

\* the value of the latest evaluation round instead of the best one
get_metric_score_from_train_stats_latest(train_stats, select_split) ==
    LET split == IF select_split = None THEN VALIDATION ELSE select_split
        validation_field_result == train_stats[split][output_feature]
    IN validation_field_result[metric][Len(validation_field_result[metric])]

get_metric_score_from_train_stats(train_stats, select_split) ==
    LET split == IF select_split = None THEN VALIDATION ELSE select_split
        validation_field_result == train_stats[split][output_feature]
    IN best_function(get_best_function(metric), validation_field_result[metric])[2]

\* [ok |-> TRUE, v |-> score], or ok = FALSE for the RuntimeError
RuntimeError == [ok |-> FALSE, v |-> 0, from |-> None]

\* the training split looked at before the validation split
get_metric_score_training_first(train_stats) ==
    IF _has_metric(train_stats, TRAINING)
    THEN [ok |-> TRUE, from |-> TRAINING,
          v |-> get_metric_score_from_train_stats(train_stats, TRAINING)]
    ELSE IF _has_metric(train_stats, VALIDATION)
    THEN [ok |-> TRUE, from |-> VALIDATION,
          v |-> get_metric_score_from_train_stats(train_stats, VALIDATION)]
    ELSE RuntimeError

get_metric_score(train_stats) ==
    IF _has_metric(train_stats, VALIDATION)
    THEN [ok |-> TRUE, from |-> VALIDATION,
          v |-> get_metric_score_from_train_stats(train_stats, VALIDATION)]
    ELSE IF _has_metric(train_stats, TRAINING)
    THEN [ok |-> TRUE, from |-> TRAINING,
          v |-> get_metric_score_from_train_stats(train_stats, TRAINING)]
    ELSE RuntimeError

\* ------------------------------------------------------------ trial runner
\* metric_utils.reduce_trainer_metrics_dict on the tracker's histories: the
\* tracker holds one list per feature and metric, empty before the first eval
reduce_trainer_metrics_dict(hist) == (output_feature :> (metric :> hist))

TrainStatsOf(pt) ==
    (TRAINING :> reduce_trainer_metrics_dict(pt.train_metrics))
    @@ (VALIDATION :> reduce_trainer_metrics_dict(pt.validation_metrics))
    @@ (TEST :> reduce_trainer_metrics_dict(<<>>))

NewTracker == [steps |-> 0, tune_checkpoint_num |-> 0,
               train_metrics |-> <<>>, validation_metrics |-> <<>>]

TrialInit ==
    /\ is_using_ray_backend \in BOOLEAN
    /\ has_validation \in BOOLEAN
    /\ dpc = "start"
    /\ final = FALSE
    /\ wpc = "idle"
    /\ progress_tracker = NewTracker
    /\ last_steps = 0
    /\ ray_queue = <<>>
    /\ qsize = 0
    /\ results = <<>>
    /\ stats = <<>>
    /\ slots = <<>>
    /\ faults = 0
    /\ produced = <<>>
    /\ log = <<>>

\* ---- the training run (run_experiment on the worker thread, or inline)
\* what _checkpoint_progress is handed: the tracker as it is now, and the
\* model directory at save_path as it is now (identified by the step count)
ItemOf(pt) == [pt |-> pt, ckpt |-> pt.steps]

\* RayTuneReportCallback._checkpoint_progress: enqueue for the trial driver
\* (delegated) or checkpoint in place; the direct caller then reports
_checkpoint_progress(pt) ==
    /\ produced' = Append(produced, ItemOf(pt))
    /\ IF is_using_ray_backend
       THEN /\ ray_queue' = Append(ray_queue, ItemOf(pt))
            /\ UNCHANGED <<results, dpc>>
       ELSE /\ results' = <<ItemOf(pt)>>
            /\ dpc' = "ckpt"
            /\ UNCHANGED ray_queue

\* the training code runs in the caller's context in direct mode
TrainingRuns == wpc = "train" /\ (is_using_ray_backend \/ dpc = "run")

\* _run_experiment up to thread.start() / _run()
StartTrial ==
    /\ dpc = "start"
    /\ dpc' = IF is_using_ray_backend THEN "alive" ELSE "run"
    /\ wpc' = "train"
    /\ UNCHANGED <<is_using_ray_backend, has_validation, final,
                   progress_tracker, last_steps, ray_queue, qsize, results,
                   stats, slots, produced, log, faults, confVars, nonTrialVars>>

\* one training step of the trainer
TrainStep ==
    /\ TrainingRuns
    /\ progress_tracker.steps < MaxSteps
    /\ progress_tracker' = [progress_tracker EXCEPT !.steps = @ + 1]
    /\ UNCHANGED <<is_using_ray_backend, has_validation, dpc, final, wpc,
                   last_steps, ray_queue, qsize, results, stats, slots,
                   produced, log, faults, confVars, nonTrialVars>>

\* an evaluation round of the trainer (it appends the round's value of the
\* configured metric to the tracker, for the training split and, when there
\* is one, the validation split) followed by
\* RayTuneReportCallback.on_eval_end
on_eval_end ==
    /\ TrainingRuns
    /\ Len(progress_tracker.train_metrics) < eval_rounds
    /\ \E v \in 1..MaxVal :
         LET pt == [progress_tracker EXCEPT
                      !.train_metrics = Append(@, v),
                      !.validation_metrics =
                          IF has_validation THEN Append(@, v) ELSE @,
                      !.tune_checkpoint_num = @ + 1]
         IN /\ progress_tracker' = pt
            /\ last_steps' = pt.steps
            /\ _checkpoint_progress(pt)
    /\ UNCHANGED <<is_using_ray_backend, has_validation, final, wpc, qsize,
                   stats, slots, log, faults, confVars, nonTrialVars>>

\* RayTuneReportCallback.on_trainer_train_teardown, at the end of training
on_trainer_train_teardown ==
    /\ TrainingRuns
    /\ wpc' = "torn"
    /\ \E is_coordinator \in BOOLEAN :
         IF is_coordinator /\ progress_tracker.steps > last_steps
         THEN _checkpoint_progress(progress_tracker)
         ELSE UNCHANGED <<produced, ray_queue, results, dpc>>
    /\ UNCHANGED <<is_using_ray_backend, has_validation, final,
                   progress_tracker, last_steps, qsize, stats, slots, log,
                   faults, confVars, nonTrialVars>>

\* _run: run_experiment returned, stats.append((train_stats, eval_stats))
TrainReturn ==
    /\ wpc = "torn"
    /\ is_using_ray_backend \/ dpc = "run"
    /\ wpc' = "returned"
    /\ \E has_eval \in BOOLEAN :
         stats' = <<[train_stats |-> TrainStatsOf(progress_tracker),
                     eval_stats |-> IF has_eval THEN "{...}" ELSE "{}"]>>
    /\ dpc' = IF is_using_ray_backend THEN dpc ELSE "collect"
    /\ UNCHANGED <<is_using_ray_backend, has_validation, final,
                   progress_tracker, last_steps, ray_queue, qsize, results,
                   slots, produced, log, faults, confVars, nonTrialVars>>

\* the exceptions run_experiment may raise
TrainingErrors == {"RuntimeError", "ValueError"}

\* _run: run_experiment raised; in delegated mode the thread just ends
TrainRaise ==
    /\ wpc \in {"train", "torn"}
    /\ is_using_ray_backend \/ dpc = "run"
    /\ wpc' = "raised"
    /\ IF is_using_ray_backend
       THEN UNCHANGED <<dpc, log>>
       ELSE /\ dpc' = "failed"
            /\ \E err \in TrainingErrors :
                 log' = Append(log, [op |-> "raise", err |-> err])
    /\ UNCHANGED <<is_using_ray_backend, has_validation, final,
                   progress_tracker, last_steps, ray_queue, qsize, results,
                   stats, slots, produced, faults, confVars, nonTrialVars>>

\* ---- the trial driver (_run_experiment, the trial-owning context)
ThreadIsAlive == wpc \in {"train", "torn"}

\* the driver goes back to the poll loop whether or not the thread ended
AfterCheckQueuePollAgain(fin) ==
    IF ~is_using_ray_backend THEN "run" ELSE "alive"

\* where the driver continues once a batch is handled (or was empty)
AfterCheckQueue(fin) ==
    IF ~is_using_ray_backend THEN "run"
    ELSE IF fin THEN "collect" ELSE "alive"

\* the batch is taken and whatever else sits on the queue is dropped
get_nowait_batch_drop(q, n) == [batch |-> SubSeq(q, 1, n), rest |-> <<>>]

\* ray_queue.get_nowait_batch(n): the first n items leave the queue
get_nowait_batch(q, n) ==
    [batch |-> SubSeq(q, 1, n), rest |-> SubSeq(q, n + 1, Len(q))]

\* the exception is logged and swallowed: the driver stays where it is
RaiseSwallowed(err) ==
    /\ dpc' = dpc
    /\ log' = Append(log, [op |-> "raise", err |-> err])
    /\ wpc' = wpc

\* an exception leaves _run_experiment: the trial fails; in direct mode it
\* unwinds through the training run
Raise(err) ==
    /\ dpc' = "failed"
    /\ log' = Append(log, [op |-> "raise", err |-> err])
    /\ wpc' = IF is_using_ray_backend THEN wpc ELSE "raised"

\* while thread.is_alive(): thread.join(timeout=0) ... / thread.join()
PollAlive ==
    /\ dpc = "alive"
    /\ dpc' = "qsize"
    /\ final' = ~ThreadIsAlive
    /\ UNCHANGED <<is_using_ray_backend, has_validation, wpc,
                   progress_tracker, last_steps, ray_queue, qsize, results,
                   stats, slots, produced, log, faults, confVars, nonTrialVars>>

\* check_queue: qsize = ray_queue.qsize(); if qsize: ...
CheckQueueSize ==
    /\ dpc = "qsize"
    /\ qsize' = Len(ray_queue)
    /\ dpc' = IF Len(ray_queue) # 0 THEN "get" ELSE AfterCheckQueue(final)
    /\ UNCHANGED <<is_using_ray_backend, has_validation, final, wpc,
                   progress_tracker, last_steps, ray_queue, results, stats,
                   slots, produced, log, faults, confVars, nonTrialVars>>

\* check_queue: results = ray_queue.get_nowait_batch(qsize)
GetBatch ==
    /\ dpc = "get"
    /\ results' = get_nowait_batch(ray_queue, qsize).batch
    /\ ray_queue' = get_nowait_batch(ray_queue, qsize).rest
    /\ dpc' = "ckpt"
    /\ UNCHANGED <<is_using_ray_backend, has_validation, final, wpc,
                   progress_tracker, last_steps, qsize, stats, slots,
                   produced, log, faults, confVars, nonTrialVars>>

\* what one checkpoint() call can do to the slot: "ok" stages the copy,
\* "copy_error" is shutil.copytree raising, "rename_error" is os.rename
\* raising (the temporary copy is then removed and the error swallowed)
CheckpointOutcomes == {"ok", "copy_error", "rename_error"}

\* checkpoint(progress_tracker, save_path) as the trial sees it: the slot
\* checkpoint_<n>/model is filled with the model directory unless it exists
\* already or the staging fails
checkpoint(sl, n, model, outcome) ==
    IF n \in DOMAIN sl THEN sl
    ELSE IF outcome = "ok" THEN sl @@ (n :> model)
    ELSE sl

\* checkpoint(progress_tracker, save_path) on the head of the batch
Checkpoint ==
    /\ dpc = "ckpt"
    /\ \E outcome \in CheckpointOutcomes :
         LET item == Head(results)
             n == item.pt.tune_checkpoint_num
             fault == n \notin DOMAIN slots /\ outcome # "ok"
             staged == checkpoint(slots, n, item.ckpt, outcome)
         IN /\ n \in DOMAIN slots => outcome = "ok"
            /\ fault => faults < MaxFaults
            /\ faults' = IF fault THEN faults + 1 ELSE faults
            /\ slots' = staged
            /\ IF outcome = "copy_error"
               THEN Raise("OSError")
               ELSE /\ log' = Append(log, [op |-> "checkpoint", item |-> item,
                                           staged |-> staged # slots])
                    /\ dpc' = "report"
                    /\ UNCHANGED wpc
    /\ UNCHANGED <<is_using_ray_backend, has_validation, final,
                   progress_tracker, last_steps, ray_queue, qsize, results,
                   stats, produced, confVars, nonTrialVars>>

\* the intermediate report carries the evaluation statistics as well
report_kwargs_with_eval_stats(item, metric_score) ==
    [op |-> "report", item |-> item, metric_score |-> metric_score,
     eval_stats |-> "{...}"]

\* report: the keyword arguments of tune.report (eval_stats="{}")
report_kwargs(item, metric_score) ==
    [op |-> "report", item |-> item, metric_score |-> metric_score,
     eval_stats |-> "{}"]

\* report(progress_tracker) on the head of the batch, then the next item
Report ==
    /\ dpc = "report"
    /\ LET item == Head(results)
           train_stats == TrainStatsOf(item.pt)
           metric_score == get_metric_score(train_stats)
       IN IF ~metric_score.ok
          THEN Raise("RuntimeError") /\ UNCHANGED results
          ELSE /\ log' = Append(log, report_kwargs(item, metric_score.v))
               /\ results' = Tail(results)
               /\ dpc' = IF Tail(results) # <<>> THEN "ckpt"
                         ELSE AfterCheckQueue(final)
               /\ UNCHANGED wpc
    /\ UNCHANGED <<is_using_ray_backend, has_validation, final,
                   progress_tracker, last_steps, ray_queue, qsize, stats,
                   slots, produced, faults, confVars, nonTrialVars>>

\* if not stats: raise ...; the final tune.report
Collect ==
    /\ dpc = "collect"
    /\ IF stats = <<>>
       THEN Raise("RuntimeError")
       ELSE LET metric_score == get_metric_score(stats[1].train_stats)
            IN IF ~metric_score.ok
               THEN Raise("RuntimeError")
               ELSE /\ log' = Append(log, [op |-> "final",
                                           metric_score |-> metric_score.v,
                                           eval_stats |-> stats[1].eval_stats])
                    /\ dpc' = "completed"
                    /\ UNCHANGED wpc
    /\ stats' = <<>>
    /\ UNCHANGED <<is_using_ray_backend, has_validation, final,
                   progress_tracker, last_steps, ray_queue, qsize, results,
                   slots, produced, faults, confVars, nonTrialVars>>

TrialIdle ==
    /\ is_using_ray_backend = FALSE
    /\ has_validation = FALSE
    /\ dpc = "off"
    /\ final = FALSE
    /\ wpc = "off"
    /\ progress_tracker = NewTracker
    /\ last_steps = 0
    /\ ray_queue = <<>>
    /\ qsize = 0
    /\ results = <<>>
    /\ stats = <<>>
    /\ slots = <<>>
    /\ faults = 0
    /\ produced = <<>>
    /\ log = <<>>

\* ------------------------------------------------- checkpoint() in detail
\* the files a model directory can hold; shutil.copytree skips the hidden ones
Files == {"weights", "params", ".lock"}
Hidden == {".lock"}
ignore_dot_files(files) == files \cap Hidden

\* the model directories the calls copy from
SavePaths == {Files, {"weights"}, Hidden}

Calls == 1..NCalls
Absent == [exists |-> FALSE, files |-> {}]
Dir(files) == [exists |-> TRUE, files |-> files]

\* os.path.join(checkpoint_dir, "model")
checkpoint_model == <<"model", 0>>
\* f"{checkpoint_model}.{copy_id}.tmp": uuid4 gives every call its own id
\* the copy made under the final name itself
tmp_dst_in_place(copy_id) == checkpoint_model

\* every call stages under one and the same temporary name
tmp_dst_shared(copy_id) == <<"model", 1>>

tmp_dst(copy_id) == <<"model", copy_id>>
Paths == {checkpoint_model} \cup {<<"model", c>> : c \in Calls}

\* what a complete copy of call c's save_path holds, each file tagged with
\* the call it was copied by
CopyOf(c) == {<<f, c>> : f \in save_path[c] \ ignore_dot_files(save_path[c])}

CkptIdle ==
    /\ fs = [p \in {checkpoint_model} |-> Absent]
    /\ cpc = <<>>
    /\ save_path = <<>>
    /\ rename_failed = {}
    /\ io_faults = 0

CkptInit ==
    /\ fs = [p \in Paths |-> Absent]
    /\ cpc = [c \in Calls |-> "isdir"]
    /\ save_path \in [Calls -> SavePaths]
    /\ rename_failed = {}
    /\ io_faults = 0

\* if not os.path.isdir(checkpoint_model): copy_id = uuid.uuid4(); the
\* copy starts by creating the (empty) destination directory
IsDir(c) ==
    /\ cpc[c] = "isdir"
    /\ IF fs[checkpoint_model].exists
       THEN cpc' = [cpc EXCEPT ![c] = "done"] /\ UNCHANGED fs
       ELSE /\ cpc' = [cpc EXCEPT ![c] = "copy"]
            /\ fs' = [fs EXCEPT ![tmp_dst(c)] = Dir({})]
    /\ UNCHANGED <<save_path, rename_failed, io_faults, confVars, nonCkptVars>>

\* shutil.copytree(save_path, tmp_dst, ignore=ignore_dot_files): one file
CopyFile(c) ==
    /\ cpc[c] = "copy"
    /\ \E f \in save_path[c] \ ignore_dot_files(save_path[c]) :
         /\ <<f, c>> \notin fs[tmp_dst(c)].files
         /\ fs' = [fs EXCEPT ![tmp_dst(c)].files = @ \cup {<<f, c>>}]
    /\ UNCHANGED <<cpc, save_path, rename_failed, io_faults, confVars,
                   nonCkptVars>>

\* shutil.copytree returns once every file is copied
CopyDone(c) ==
    /\ cpc[c] = "copy"
    /\ fs[tmp_dst(c)].files = CopyOf(c)
    /\ cpc' = [cpc EXCEPT ![c] = "rename"]
    /\ UNCHANGED <<fs, save_path, rename_failed, io_faults, confVars,
                   nonCkptVars>>

\* shutil.copytree raises part-way: it is outside the try, the error leaves
\* checkpoint()
CopyRaise(c) ==
    /\ cpc[c] = "copy"
    /\ io_faults < MaxFaults
    /\ io_faults' = io_faults + 1
    /\ cpc' = [cpc EXCEPT ![c] = "raised"]
    /\ UNCHANGED <<fs, save_path, rename_failed, confVars, nonCkptVars>>

\* os.rename(src, dst) of a directory: it replaces dst atomically when dst is
\* absent or an empty directory, and raises when dst is a non-empty directory
RenameAllowed(dst) == ~dst.exists \/ dst.files = {}

\* os.rename(tmp_dst, checkpoint_model); except Exception: -> cleanup
Rename(c) ==
    /\ cpc[c] = "rename"
    /\ \E io_error \in BOOLEAN :
         /\ io_error => io_faults < MaxFaults
         /\ io_faults' = IF io_error THEN io_faults + 1 ELSE io_faults
         /\ IF ~io_error /\ RenameAllowed(fs[checkpoint_model])
            THEN /\ fs' = [fs EXCEPT ![checkpoint_model] = fs[tmp_dst(c)],
                                     ![tmp_dst(c)] = Absent]
                 /\ cpc' = [cpc EXCEPT ![c] = "done"]
                 /\ UNCHANGED rename_failed
            ELSE /\ cpc' = [cpc EXCEPT ![c] = "rmtree"]
                 /\ rename_failed' = rename_failed \cup {c}
                 /\ UNCHANGED fs
    /\ UNCHANGED <<save_path, confVars, nonCkptVars>>

\* shutil.rmtree(tmp_dst) in the except branch
RmTree(c) ==
    /\ cpc[c] = "rmtree"
    /\ fs' = [fs EXCEPT ![tmp_dst(c)] = Absent]
    /\ cpc' = [cpc EXCEPT ![c] = "done"]
    /\ UNCHANGED <<save_path, rename_failed, io_faults, confVars, nonCkptVars>>

\* ----------------------------------------------------- resuming a trial
LocalRanks == 0..(NWorkers - 1)

\* what a path can hold: nothing, the model directory that was there before
\* the resume, the resumed checkpoint's model, or a partly moved model
Contents == {"absent", "old", "new", "partial"}

\* what safe_move_file(src, dst) can do: move src to dst, or raise leaving
\* dst untouched, or raise part-way leaving a partial dst
MoveOutcomes == {"moved", "error", "error_partial"}

ResumeIdle ==
    /\ resume_ckpt_ref = None
    /\ rfs = [save_path |-> "absent", tmp_path |-> "absent", ckpt_model |-> "absent"]
    /\ rpc = <<>>
    /\ before = "absent"
    /\ move_failed = FALSE
    /\ failures = 0

\* on_train_start: resume_ckpt_ref is set when the trial is delegated and
\* resumes from checkpoint_dir; the workers then enter on_trainer_train_setup
ResumeInit ==
    /\ resume_ckpt_ref \in {None, "ref"}
    /\ \E c \in {"absent", "old"} :
         rfs = [save_path |-> c, tmp_path |-> "absent", ckpt_model |-> "absent"]
    /\ rpc = [w \in LocalRanks |-> "setup"]
    /\ before = "absent"
    /\ move_failed = FALSE
    /\ failures = 0

\* the barrier called inside the if: only local rank 0 waits at it, every
\* other worker goes on to train
SetupEnterBarrierInsideIf(w) ==
    /\ rpc[w] = "setup"
    /\ IF resume_ckpt_ref # None /\ w = 0
       THEN /\ rfs' = [rfs EXCEPT !.ckpt_model = "new"]
            /\ before' = rfs.save_path
            /\ rpc' = [rpc EXCEPT ![w] = "backup"]
       ELSE /\ rpc' = [rpc EXCEPT ![w] = "train"]
            /\ UNCHANGED <<rfs, before>>
    /\ UNCHANGED <<resume_ckpt_ref, move_failed, failures, confVars,
                   nonResumeVars>>

\* if self.resume_ckpt_ref is not None and trainer.local_rank == 0: the
\* checkpoint is materialized at ckpt_path; every other worker goes straight
\* to the barrier
SetupEnter(w) ==
    /\ rpc[w] = "setup"
    /\ IF resume_ckpt_ref # None /\ w = 0
       THEN /\ rfs' = [rfs EXCEPT !.ckpt_model = "new"]
            /\ before' = rfs.save_path
            /\ rpc' = [rpc EXCEPT ![w] = "backup"]
       ELSE /\ rpc' = [rpc EXCEPT ![w] = "barrier"]
            /\ UNCHANGED <<rfs, before>>
    /\ UNCHANGED <<resume_ckpt_ref, move_failed, failures, confVars,
                   nonResumeVars>>

\* if os.path.exists(save_path): os.rename(save_path, tmp_path); the rename
\* raises when tmp_path is a non-empty directory
Backup ==
    /\ rpc[0] = "backup"
    /\ IF rfs.save_path = "absent"
       THEN rpc' = [rpc EXCEPT ![0] = "move"] /\ UNCHANGED rfs
       ELSE IF rfs.tmp_path = "absent"
       THEN /\ rfs' = [rfs EXCEPT !.tmp_path = rfs.save_path,
                                  !.save_path = "absent"]
            /\ rpc' = [rpc EXCEPT ![0] = "move"]
       ELSE rpc' = [rpc EXCEPT ![0] = "raised"] /\ UNCHANGED rfs
    /\ UNCHANGED <<resume_ckpt_ref, before, move_failed, failures, confVars,
                   nonResumeVars>>

\* safe_move_file(os.path.join(ckpt_path, "model"), save_path)
safe_move_file(f, outcome) ==
    CASE outcome = "moved" ->
           [f EXCEPT !.save_path = f.ckpt_model, !.ckpt_model = "absent"]
      [] outcome = "error_partial" -> [f EXCEPT !.save_path = "partial"]
      [] OTHER -> f

Move ==
    /\ rpc[0] = "move"
    /\ \E outcome \in MoveOutcomes :
         /\ rfs' = safe_move_file(rfs, outcome)
         /\ move_failed' = (outcome # "moved")
         /\ rpc' = [rpc EXCEPT ![0] = IF outcome = "moved" THEN "cleanup"
                                      ELSE "rollback"]
    /\ UNCHANGED <<resume_ckpt_ref, before, failures, confVars, nonResumeVars>>

\* the partial save_path is removed and the backup is left where it is
rollback_no_restore(f) ==
    IF f.save_path # "absent" THEN [f EXCEPT !.save_path = "absent"] ELSE f

\* except Exception: if os.path.exists(save_path): shutil.rmtree(save_path);
\* if os.path.exists(tmp_path): os.rename(tmp_path, save_path)
rollback(f) ==
    LET removed == IF f.save_path # "absent"
                   THEN [f EXCEPT !.save_path = "absent"] ELSE f
    IN IF removed.tmp_path # "absent"
       THEN [removed EXCEPT !.save_path = removed.tmp_path,
                            !.tmp_path = "absent"]
       ELSE removed

\* the except branch, ending in raise
Rollback ==
    /\ rpc[0] = "rollback"
    /\ rfs' = rollback(rfs)
    /\ rpc' = [rpc EXCEPT ![0] = "raised"]
    /\ UNCHANGED <<resume_ckpt_ref, before, move_failed, failures, confVars,
                   nonResumeVars>>

\* if os.path.exists(tmp_path): shutil.rmtree(tmp_path); leaving the with
\* block removes the materialized checkpoint
Cleanup ==
    /\ rpc[0] = "cleanup"
    /\ rfs' = [rfs EXCEPT !.tmp_path = "absent", !.ckpt_model = "absent"]
    /\ rpc' = [rpc EXCEPT ![0] = "barrier"]
    /\ UNCHANGED <<resume_ckpt_ref, before, move_failed, failures, confVars,
                   nonResumeVars>>

\* trainer.barrier(): returns once every worker has called it
Barrier ==
    /\ \A w \in LocalRanks : rpc[w] = "barrier"
    /\ rpc' = [w \in LocalRanks |-> "train"]
    /\ UNCHANGED <<resume_ckpt_ref, rfs, before, move_failed, failures,
                   confVars, nonResumeVars>>

\* the scheduler retries the failed trial: the workers start over and run
\* on_trainer_train_setup again on the same node
Retry ==
    /\ rpc[0] = "raised"
    /\ failures < max_failures
    /\ failures' = failures + 1
    /\ rpc' = [w \in LocalRanks |-> "setup"]
    /\ rfs' = [rfs EXCEPT !.ckpt_model = "absent"]
    /\ move_failed' = FALSE
    /\ UNCHANGED <<resume_ckpt_ref, before, confVars, nonResumeVars>>

\* ------------------------------------------------------ search-space codec
\* Python values, tagged with their type: [t |-> type, s |-> text,
\* items |-> members]. An int is held as its decimal numeral, a str as the
\* sequence of its lexemes (words, digits, punctuation), so that JSON text is
\* a str like any other; a list or dict holds its members in order, a dict
\* member under its key k.
Value(t, s, items) == [t |-> t, s |-> s, items |-> items]
Member(kt, k, x) == [kt |-> kt, k |-> k, x |-> x]
Num(n) == Value("int", <<ToString(n)>>, <<>>)
Str(lexemes) == Value("str", lexemes, <<>>)
Bool(b) == Value("bool", <<IF b THEN "True" ELSE "False">>, <<>>)
Null == Value("NoneType", <<>>, <<>>)
List(xs) == Value("list", <<>>, [i \in 1..Len(xs) |-> Member("none", <<>>, xs[i])])
Dict(members) == Value("dict", <<>>, members)
TypeError == Value("TypeError", <<>>, <<>>)
JSONDecodeError == Value("JSONDecodeError", <<>>, <<>>)

Digits == 0..9
Quote == "\""

RECURSIVE Join(_, _)
\* sep.join(parts)
Join(parts, sep) ==
    IF parts = <<>> THEN <<>>
    ELSE IF Len(parts) = 1 THEN parts[1]
    ELSE parts[1] \o <<sep>> \o Join(Tail(parts), sep)

RECURSIVE Dumps(_)
\* the text json.dumps(x) writes for x; a key that is an int is written as
\* the string of its numeral
Dumps(x) ==
    CASE x.t = "int" -> x.s
      [] x.t = "bool" -> IF x.s = <<"True">> THEN <<"true">> ELSE <<"false">>
      [] x.t = "NoneType" -> <<"null">>
      [] x.t = "str" -> <<Quote>> \o x.s \o <<Quote>>
      [] x.t = "list" ->
           <<"[">>
           \o Join([i \in 1..Len(x.items) |-> Dumps(x.items[i].x)], ",")
           \o <<"]">>
      [] x.t = "dict" ->
           <<"{">>
           \o Join([i \in 1..Len(x.items) |->
                      <<Quote>> \o x.items[i].k \o <<Quote, ":">>
                      \o Dumps(x.items[i].x)],
                   ",")
           \o <<"}">>

json_dumps(x) == Str(Dumps(x))

\* the parser of json.loads over text s from position i: [ok, val, next]
Fail == [ok |-> FALSE, val |-> JSONDecodeError, next |-> 0]
At(s, i) == IF i \in 1..Len(s) THEN s[i] ELSE "<eof>"
IsDigit(lexeme) == \E d \in Digits : ToString(d) = lexeme

RECURSIVE ScanString(_, _, _)
\* the lexemes up to the closing quote, as a str
ScanString(s, i, acc) ==
    IF At(s, i) = "<eof>" THEN Fail
    ELSE IF At(s, i) = Quote
    THEN [ok |-> TRUE, val |-> Str(acc), next |-> i + 1]
    ELSE ScanString(s, i + 1, Append(acc, s[i]))

RECURSIVE ParseValue(_, _)
RECURSIVE ParseItems(_, _, _)
RECURSIVE ParseMembers(_, _, _)

ParseValue(s, i) ==
    LET c == At(s, i) IN
    CASE c = "[" ->
           IF At(s, i + 1) = "]"
           THEN [ok |-> TRUE, val |-> List(<<>>), next |-> i + 2]
           ELSE ParseItems(s, i + 1, <<>>)
      [] c = "{" ->
           IF At(s, i + 1) = "}"
           THEN [ok |-> TRUE, val |-> Dict(<<>>), next |-> i + 2]
           ELSE ParseMembers(s, i + 1, <<>>)
      [] c = Quote -> ScanString(s, i + 1, <<>>)
      [] c = "true" -> [ok |-> TRUE, val |-> Bool(TRUE), next |-> i + 1]
      [] c = "false" -> [ok |-> TRUE, val |-> Bool(FALSE), next |-> i + 1]
      [] c = "null" -> [ok |-> TRUE, val |-> Null, next |-> i + 1]
      [] IsDigit(c) ->
           [ok |-> TRUE, val |-> Value("int", <<c>>, <<>>), next |-> i + 1]
      [] OTHER -> Fail

ParseItems(s, i, acc) ==
    LET r == ParseValue(s, i) IN
    IF ~r.ok THEN Fail
    ELSE IF At(s, r.next) = ","
    THEN ParseItems(s, r.next + 1, Append(acc, r.val))
    ELSE IF At(s, r.next) = "]"
    THEN [ok |-> TRUE, val |-> List(Append(acc, r.val)), next |-> r.next + 1]
    ELSE Fail

ParseMembers(s, i, acc) ==
    LET k == IF At(s, i) = Quote THEN ScanString(s, i + 1, <<>>) ELSE Fail IN
    IF ~k.ok THEN Fail
    ELSE IF At(s, k.next) # ":" THEN Fail
    ELSE LET r == ParseValue(s, k.next + 1) IN
         IF ~r.ok THEN Fail
         ELSE IF At(s, r.next) = ","
         THEN ParseMembers(s, r.next + 1, Append(acc, Member("str", k.val.s, r.val)))
         ELSE IF At(s, r.next) = "}"
         THEN [ok |-> TRUE, next |-> r.next + 1,
               val |-> Dict(Append(acc, Member("str", k.val.s, r.val)))]
         ELSE Fail

\* json.loads(x): a TypeError unless x is a str; the whole text must parse
json_loads(x) ==
    IF x.t # "str" THEN TypeError
    ELSE LET r == ParseValue(x.s, 1)
         IN IF r.ok /\ r.next = Len(x.s) + 1 THEN r.val ELSE JSONDecodeError

identity(x) == x

\* applying a decode function registered in the context
Apply(fn, x) == IF fn = "json.loads" THEN json_loads(x) ELSE identity(x)

\* isinstance(x, (int, float)): bool is a subclass of int
IsNumeric(x) == x.t \in {"int", "bool"}

\* the entries a values / categories list is drawn from
Entries ==
    {Num(1), Num(2), Bool(TRUE), Null, Str(<<"adam">>), Str(<<"[", "1", "]">>),
     List(<<>>), List(<<Num(1), Num(2)>>),
     List(<<Str(<<"a">>), List(<<Num(1)>>), Null>>),
     Dict(<<>>), Dict(<<Member("str", <<"k">>, Num(1))>>),
     Dict(<<Member("str", <<"k">>, List(<<Num(1), Bool(FALSE)>>)),
            Member("str", <<"j">>, Dict(<<>>))>>),
     List(<<Dict(<<Member("str", <<"k">>, Str(<<"a">>))>>), Dict(<<>>)>>),
     Dict(<<Member("int", <<"1">>, Str(<<"a">>))>>)}

EntryLists == UNION {[1..n -> Entries] : n \in 1..MaxEntries}

\* the keys encode_values looks at
ListKeys == {"values", "categories"}

\* RayTuneExecutor.encode_values(param, values, ctx) for a definition with
\* at most one list key ("none": neither "values" nor "categories"):
\* [values |-> the encoded definition, ctx |-> the context]
encode_values(param, values, ctx) ==
    IF values.key \in ListKeys /\ ~IsNumeric(values.entries[1])
    THEN [values |-> [values EXCEPT !.entries =
                         [i \in 1..Len(values.entries) |-> json_dumps(values.entries[i])]],
          ctx |-> (param :> "json.loads") @@ ctx]
    ELSE [values |-> values, ctx |-> ctx]

\* RayTuneExecutor.decode_values(config, ctx)
decode_values(cfg, ctx) ==
    [key \in DOMAIN cfg |->
        Apply(IF key \in DOMAIN ctx THEN ctx[key] ELSE "identity", cfg[key])]

CodecIdle ==
    /\ parameters = <<>>
    /\ search_space = <<>>
    /\ decode_ctx = <<>>
    /\ config = <<>>
    /\ picked = <<>>
    /\ decoded = <<>>
    /\ search_space_error = None
    /\ kpc = "off"

\* a choice / grid_search parameter "p" and a numeric parameter "lr"
CodecInit ==
    /\ \E key \in ListKeys, entries \in EntryLists :
         parameters = ("p" :> [space |-> IF key = "values" THEN "grid_search"
                                         ELSE "choice",
                               key |-> key, entries |-> entries, args |-> {}])
                      @@ ("lr" :> [space |-> "choice", key |-> "categories",
                                   entries |-> <<Num(1), Num(2)>>, args |-> {}])
    /\ search_space = <<>>
    /\ decode_ctx = <<>>
    /\ config = <<>>
    /\ picked = <<>>
    /\ decoded = <<>>
    /\ search_space_error = None
    /\ kpc = "encode"

\* the search spaces of ray.tune and the arguments of each:
\* [name, has_default] in the order of the signature
signature(param_search_type) ==
    CASE param_search_type = "choice" ->
           <<[name |-> "categories", has_default |-> FALSE]>>
      [] param_search_type = "grid_search" ->
           <<[name |-> "values", has_default |-> FALSE]>>
      [] param_search_type = "uniform" ->
           <<[name |-> "lower", has_default |-> FALSE],
             [name |-> "upper", has_default |-> FALSE]>>
      [] param_search_type = "loguniform" ->
           <<[name |-> "lower", has_default |-> FALSE],
             [name |-> "upper", has_default |-> FALSE],
             [name |-> "base", has_default |-> TRUE]>>
      [] param_search_type = "randn" ->
           <<[name |-> "mean", has_default |-> TRUE],
             [name |-> "sd", has_default |-> TRUE]>>

\* hasattr(tune, param_search_type)
hasattr_tune(param_search_type) ==
    param_search_type \in {"choice", "grid_search", "uniform", "loguniform", "randn"}

\* str.lower() on the spellings of the model
lower(space) ==
    CASE space = "Uniform" -> "uniform"
      [] space = "Normal" -> "normal"
      [] OTHER -> space

\* the keys of a definition besides "space"
Supplied(values) ==
    values.args \cup (IF values.key \in ListKeys THEN {values.key} ELSE {})

\* no argument is ever taken to be required
is_required_never(arg) == FALSE

\* arg.default is arg.empty
is_required(arg) == ~arg.has_default

\* the checks of _get_search_space on one encoded definition: "None", or
\* the exception raised
param_search_space_error(values) ==
    IF ~hasattr_tune(lower(values.space)) THEN "ValueError"
    ELSE IF \E i \in DOMAIN signature(lower(values.space)) :
               LET arg == signature(lower(values.space))[i]
               IN arg.name \notin Supplied(values) /\ is_required(arg)
    THEN "ValueError"
    ELSE None

\* the initial states of the search-space construction: a list parameter
\* "p" and a distribution parameter "lr", well-formed or not
SpaceKinds == {"uniform", "Uniform", "loguniform", "randn", "normal", "Normal"}
ArgNames == {"lower", "upper", "mean"}
SearchSpaceInit ==
    /\ \E key \in ListKeys, space \in {"choice", "grid_search"},
          entries \in {<<Num(1), Num(2)>>, <<List(<<Num(1)>>), Dict(<<>>)>>},
          lr_space \in SpaceKinds, lr_args \in SUBSET ArgNames :
         parameters = ("p" :> [space |-> space, key |-> key,
                               entries |-> entries, args |-> {}])
                      @@ ("lr" :> [space |-> lr_space, key |-> "none",
                                   entries |-> <<>>, args |-> lr_args])
    /\ search_space = <<>>
    /\ decode_ctx = <<>>
    /\ config = <<>>
    /\ picked = <<>>
    /\ decoded = <<>>
    /\ search_space_error = None
    /\ kpc = "encode"

RECURSIVE EncodeAll(_, _, _)
\* the loop of _get_search_space over the parameters
EncodeAll(names, space, ctx) ==
    IF names = {} THEN [space |-> space, ctx |-> ctx, raised |-> None]
    ELSE LET param == CHOOSE n \in names : TRUE
             e == encode_values(param, parameters[param], ctx)
             err == param_search_space_error(e.values)
         IN IF err # None THEN [space |-> space, ctx |-> e.ctx, raised |-> err]
            ELSE EncodeAll(names \ {param}, (param :> e.values) @@ space, e.ctx)

\* self.search_space, self.decode_ctx = self._get_search_space(parameters)
\* in __init__; an exception leaves the executor unbuilt
GetSearchSpace ==
    /\ kpc = "encode"
    /\ LET r == EncodeAll(DOMAIN parameters, <<>>, <<>>)
       IN IF r.raised = None
          THEN /\ search_space' = r.space
               /\ decode_ctx' = r.ctx
               /\ kpc' = "sample"
               /\ UNCHANGED search_space_error
          ELSE /\ search_space_error' = r.raised
               /\ kpc' = "raised"
               /\ UNCHANGED <<search_space, decode_ctx>>
    /\ UNCHANGED <<parameters, config, picked, decoded, confVars, nonCodecVars>>

\* the search algorithm samples one entry of every parameter's list, or a
\* number from a numeric distribution
Sample ==
    /\ kpc = "sample"
    /\ \E pick \in [DOMAIN search_space -> 1..MaxEntries] :
         /\ \A n \in DOMAIN search_space :
              search_space[n].key \in ListKeys =>
                  pick[n] <= Len(search_space[n].entries)
         /\ config' = [n \in DOMAIN search_space |->
                          IF search_space[n].key \in ListKeys
                          THEN search_space[n].entries[pick[n]]
                          ELSE Num(pick[n])]
         /\ picked' = pick
    /\ kpc' = "decode"
    /\ UNCHANGED <<parameters, search_space, decode_ctx, decoded,
                   search_space_error, confVars, nonCodecVars>>

\* _run_experiment: config = self.decode_values(config, decode_ctx)
Decode ==
    /\ kpc = "decode"
    /\ decoded' = decode_values(config, decode_ctx)
    /\ kpc' = "done"
    /\ UNCHANGED <<parameters, search_space, decode_ctx, config, picked,
                   search_space_error, confVars, nonCodecVars>>

\* ------------------------------------------------- metric extractor calls
\* metric histories: the value lists of one feature and metric
RECURSIVE SeqsUpTo(_, _)
SeqsUpTo(S, n) ==
    IF n = 0 THEN {<<>>}
    ELSE LET shorter == SeqsUpTo(S, n - 1)
         IN shorter \cup {Append(h, x) : h \in {g \in shorter : Len(g) = n - 1},
                                         x \in S}

Histories == SeqsUpTo(1..MaxVal, MaxHist)

\* the statistics of one split: no feature, another feature only, the
\* configured feature without metrics, or with one metric's history
SplitStats ==
    {<<>>, (other_feature :> ("accuracy" :> <<1>>)), (output_feature :> <<>>)}
    \cup {(output_feature :> (m :> h)) : m \in Metrics, h \in Histories}

\* the train_stats a trial may hand to get_metric_score
TrainStats ==
    {<<>>}
    \cup {(TRAINING :> t) : t \in SplitStats}
    \cup {(VALIDATION :> v) : v \in SplitStats}
    \cup {(TRAINING :> t) @@ (VALIDATION :> v) : t \in SplitStats, v \in SplitStats}

MetricIdle ==
    /\ given_stats = <<>>
    /\ score_out = RuntimeError
    /\ mpc = "off"

MetricInit ==
    /\ given_stats \in TrainStats
    /\ score_out = RuntimeError
    /\ mpc = "call"

\* metric_score = self.get_metric_score(train_stats)
GetMetricScore ==
    /\ mpc = "call"
    /\ score_out' = get_metric_score(given_stats)
    /\ mpc' = IF get_metric_score(given_stats).ok THEN "returned" ELSE "raised"
    /\ UNCHANGED <<given_stats, confVars, nonMetricVars>>

\* ------------------------------------------------------ result aggregation
\* a float column value: a number, or NaN for a trial that reported nothing
Float(x) == [nan |-> FALSE, x |-> x]
NaN == [nan |-> TRUE, x |-> 0]
\* NaN in a column of strings
nan == Value("float", <<"nan">>, <<>>)

\* the training statistics and evaluation statistics a report may dump
TrainingStats ==
    {Dict(<<>>), Dict(<<Member("str", <<TRAINING>>, Dict(<<>>))>>)}
EvalStats ==
    {Dict(<<>>), Dict(<<Member("str", <<output_feature>>, Dict(<<>>))>>)}

\* the keyword arguments of tune.report (report, and the final report of
\* _run_experiment), as the row the results table keeps for the trial
ReportedRow(score, train_stats, eval_stats) ==
    [parameters |-> json_dumps(Dict(<<>>)),
     metric_score |-> Float(score),
     training_stats |-> json_dumps(train_stats),
     eval_stats |-> json_dumps(eval_stats)]

\* the row of a trial that never reported: every column is NaN
Unreported ==
    [parameters |-> nan, metric_score |-> NaN, training_stats |-> nan,
     eval_stats |-> nan]

Rows ==
    {Unreported}
    \cup {ReportedRow(x, t, e) : x \in 1..MaxScore, t \in TrainingStats, e \in EvalStats}

\* analysis.results_df: one row per trial, in the scheduler's order
ResultTables ==
    UNION {{[i \in 1..n |-> [trial_id |-> i] @@ rows[i]] : rows \in [1..n -> Rows]}
           : n \in 0..MaxTrials}

ExecIdle ==
    /\ validation_set = None
    /\ results_df = <<>>
    /\ temp_ordered_trials = <<>>
    /\ ordered_trials = <<>>
    /\ idx = 0
    /\ selected = {}
    /\ cases = [i \in 1..MaxTrials |-> "none"]
    /\ exec_error = None
    /\ epc = "off"

ExecInit ==
    /\ validation_set \in {None, "empty", "data"}
    /\ results_df = <<>>
    /\ temp_ordered_trials = <<>>
    /\ ordered_trials = <<>>
    /\ idx = 0
    /\ selected = {}
    /\ cases = [i \in 1..MaxTrials |-> "none"]
    /\ exec_error = None
    /\ epc = "run"

\* the exceptions tune.run may raise
TuneErrors == {"TuneError", "ValueError"}

\* the exception passed on as it is
reraise(e) == e

\* except Exception as e: raise RuntimeError(f"Encountered Ray Tune error: {e}")
raise_from(e) == "RuntimeError"

\* analysis = tune.run(...), or the RuntimeError raised for a scheduler error
TuneRun ==
    /\ epc = "run"
    /\ \/ /\ results_df' \in ResultTables
          /\ epc' = "sort"
          /\ UNCHANGED exec_error
       \/ \E e \in TuneErrors :
            /\ exec_error' = raise_from(e)
            /\ epc' = "raised"
            /\ UNCHANGED results_df
    /\ UNCHANGED <<validation_set, temp_ordered_trials, ordered_trials, idx,
                   selected, cases, confVars, nonExecVars>>

\* a precedes b in the order of sort_values: NaN goes last
Precedes(a, b, ascending) ==
    IF a.nan THEN FALSE
    ELSE IF b.nan THEN TRUE
    ELSE IF ascending THEN a.x < b.x ELSE a.x > b.x

RECURSIVE InsertRow(_, _, _)
\* row put before the first sorted row it precedes
InsertRow(row, sorted, ascending) ==
    IF sorted = <<>> THEN <<row>>
    ELSE IF Precedes(row.metric_score, Head(sorted).metric_score, ascending)
    THEN <<row>> \o sorted
    ELSE <<Head(sorted)>> \o InsertRow(row, Tail(sorted), ascending)

RECURSIVE SortFrom(_, _, _)
SortFrom(df, sorted, ascending) ==
    IF df = <<>> THEN sorted
    ELSE SortFrom(Tail(df), InsertRow(Head(df), sorted, ascending), ascending)

\* the rows in ascending order whatever the goal
sort_values_ascending(df, ascending) == SortFrom(df, <<>>, TRUE)

\* results_df.sort_values("metric_score", ascending=ascending); rows of equal
\* score keep the order of the table
sort_values(df, ascending) == SortFrom(df, <<>>, ascending)

\* the column taken to exist whenever a trial ran
HasMetricScoreColumnOfAnyRow(df) == df # <<>>

\* "metric_score" in analysis.results_df.columns: some trial reported
HasMetricScoreColumn(df) == \E i \in 1..Len(df) : df[i] # ([trial_id |-> i] @@ Unreported)

\* ordered_trials = results_df.sort_values(...), or [] with a warning
SortValues ==
    /\ epc = "sort"
    /\ IF HasMetricScoreColumn(results_df)
       THEN /\ ordered_trials' = sort_values(results_df, goal # MAXIMIZE)
            /\ epc' = "catch_nans"
       ELSE /\ ordered_trials' = <<>>
            /\ epc' = "done"
    /\ UNCHANGED <<validation_set, results_df, temp_ordered_trials, idx,
                   selected, cases, exec_error, confVars, nonExecVars>>

\* isinstance(kwargs[key], float) -> kwargs[key] = {}
catch_nan(v) == IF v.t = "float" THEN Dict(<<>>) ELSE v

\* the loop over ordered_trials.to_dict(orient="records")
CatchNans ==
    /\ epc = "catch_nans"
    /\ temp_ordered_trials' =
         [i \in 1..Len(ordered_trials) |->
            [ordered_trials[i] EXCEPT
               !.parameters = catch_nan(@),
               !.training_stats = catch_nan(@),
               !.eval_stats = catch_nan(@)]]
    /\ idx' = 1
    /\ epc' = "backfill"
    /\ UNCHANGED <<validation_set, results_df, ordered_trials, selected,
                   cases, exec_error, confVars, nonExecVars>>

\* the test of the eval_stats field alone
is_incomplete_eval_only(trial) == trial.eval_stats = Str(<<"{", "}">>)

\* trial["eval_stats"] == "{}" and trial["training_stats"] != "{}"
is_incomplete(trial) ==
    /\ trial.eval_stats = Str(<<"{", "}">>)
    /\ trial.training_stats # Str(<<"{", "}">>)

\* what LudwigModel.load and best_model.evaluate may do
EvalOutcomes == {"evaluated", "NotImplementedError", "load_error", "evaluate_error"}

\* the statistics best_model.evaluate returns
evaluated_stats == Dict(<<Member("str", <<output_feature>>, Dict(<<>>))>>)

\* the except clause taken away: NotImplementedError leaves like any error
evaluate_best_model_uncaught(trial, outcome) ==
    IF outcome = "evaluated"
    THEN [trial |-> [trial EXCEPT !.eval_stats = json_dumps(evaluated_stats)],
          raised |-> None]
    ELSE [trial |-> trial, raised |-> outcome]

\* _evaluate_best_model: the record after the call, and the exception that
\* leaves it ("None" when it returns)
evaluate_best_model(trial, outcome) ==
    IF outcome = "evaluated"
    THEN [trial |-> [trial EXCEPT !.eval_stats = json_dumps(evaluated_stats)],
          raised |-> None]
    ELSE IF outcome = "NotImplementedError"
    THEN [trial |-> trial, raised |-> None]
    ELSE [trial |-> trial, raised |-> outcome]

\* one iteration of the backfill loop: a selected trial is evaluated on the
\* validation set with its best checkpoint when both exist; an error of
\* the checkpoint download, or of load or evaluate other than evaluate's
\* NotImplementedError, ends execute
Backfill ==
    /\ epc = "backfill"
    /\ idx <= Len(temp_ordered_trials)
    /\ LET trial == temp_ordered_trials[idx] IN
       IF is_incomplete(trial)
       THEN /\ selected' = selected \cup {trial.trial_id}
            /\ IF validation_set = "data"
               THEN \E model_path \in {None, "best", "sync_error"},
                       outcome \in EvalOutcomes :
                      IF model_path = "sync_error"
                      THEN /\ cases' = [cases EXCEPT ![trial.trial_id] = "sync_error"]
                           /\ exec_error' = "sync_error"
                           /\ epc' = "failed"
                           /\ UNCHANGED temp_ordered_trials
                      ELSE IF model_path # None
                      THEN LET r == evaluate_best_model(trial, outcome) IN
                           /\ temp_ordered_trials' =
                                [temp_ordered_trials EXCEPT ![idx] = r.trial]
                           /\ cases' = [cases EXCEPT ![trial.trial_id] = outcome]
                           /\ exec_error' = r.raised
                           /\ epc' = IF r.raised = None THEN epc ELSE "failed"
                      ELSE /\ cases' = [cases EXCEPT ![trial.trial_id] = "no_checkpoint"]
                           /\ UNCHANGED <<temp_ordered_trials, exec_error, epc>>
               ELSE /\ cases' = [cases EXCEPT ![trial.trial_id] = "no_validation_set"]
                    /\ UNCHANGED <<temp_ordered_trials, exec_error, epc>>
       ELSE UNCHANGED <<selected, temp_ordered_trials, cases, exec_error, epc>>
    /\ idx' = idx + 1
    /\ UNCHANGED <<validation_set, results_df, ordered_trials, confVars,
                   nonExecVars>>

\* ludwig.hyperopt.utils.load_json_value: json.loads(v), or v when that fails
load_json_value(v) ==
    LET r == json_loads(v)
    IN IF r.t \in {"TypeError", "JSONDecodeError"} THEN v ELSE r

\* load_json_values(kwargs) on the string fields of a record
load_json_values(kwargs) ==
    [kwargs EXCEPT !.parameters = load_json_value(@),
                   !.training_stats = load_json_value(@),
                   !.eval_stats = load_json_value(@)]

\* ordered_trials = [TrialResults.from_dict(load_json_values(kwargs)) ...]
Finish ==
    /\ epc = "backfill"
    /\ idx > Len(temp_ordered_trials)
    /\ ordered_trials' =
         [i \in 1..Len(temp_ordered_trials) |->
            load_json_values(temp_ordered_trials[i])]
    /\ epc' = "done"
    /\ UNCHANGED <<validation_set, results_df, temp_ordered_trials, idx,
                   selected, cases, exec_error, confVars, nonExecVars>>

\* ------------------------------------------- best-checkpoint acquisition
\* the files of a checkpoint_<n> directory that matter here: the completion
\* marker and the metadata file under either of its names
is_checkpoint == ".is_checkpoint"
CheckpointFiles == {is_checkpoint, ".tune_metadata", "checkpoint.tune_metadata"}
Ckpts == 1..MaxCkpts
TrialDirs == [Ckpts -> SUBSET CheckpointFiles]

\* glob.glob(os.path.join(chkpt_dir, pattern)): "*" does not match a leading
\* dot, a pattern without wildcards matches the name itself
glob(files, pattern) ==
    IF pattern = "*.tune_metadata"
    THEN files \cap {"checkpoint.tune_metadata"}
    ELSE files \cap {pattern}

\* the metadata files found with "*.tune_metadata" alone
metadata_file_star_only(files) == glob(files, "*.tune_metadata")

\* metadata_file in _remove_partial_checkpoints
metadata_file(files) ==
    glob(files, "*.tune_metadata") \cup glob(files, ".tune_metadata")

BestIdle ==
    /\ remote_checkpoint_dir = None
    /\ trial_path = [n \in Ckpts |-> {}]
    /\ marker_paths = {}
    /\ at_prune = [n \in Ckpts |-> {}]
    /\ at_query = [n \in Ckpts |-> {}]
    /\ best_model_path = None
    /\ materialized = FALSE
    /\ bpc = "off"

\* with a remote checkpoint directory the local trial directory is filled by
\* sync_down; without one it holds what the trial left
BestInit ==
    /\ remote_checkpoint_dir \in {None, "remote"}
    /\ IF remote_checkpoint_dir = None THEN trial_path \in TrialDirs
       ELSE trial_path = [n \in Ckpts |-> {}]
    /\ marker_paths = {}
    /\ at_prune = [n \in Ckpts |-> {}]
    /\ at_query = [n \in Ckpts |-> {}]
    /\ best_model_path = None
    /\ materialized = FALSE
    /\ bpc = "sync"

\* if remote_checkpoint_dir is not None: sync_down(...); wait_or_retry();
\* then the glob of the markers in _remove_partial_checkpoints
SyncDown ==
    /\ bpc = "sync"
    /\ \/ /\ IF remote_checkpoint_dir # None THEN trial_path' \in TrialDirs
             ELSE UNCHANGED trial_path
          /\ marker_paths' = {n \in Ckpts : is_checkpoint \in trial_path'[n]}
          /\ at_prune' = trial_path'
          /\ bpc' = "prune"
       \/ /\ remote_checkpoint_dir # None
          /\ bpc' = "raised"
          /\ UNCHANGED <<trial_path, marker_paths, at_prune>>
    /\ UNCHANGED <<remote_checkpoint_dir, at_query, best_model_path,
                   materialized, confVars, nonBestVars>>

\* one iteration of the loop over marker_paths: os.remove(marker_path) when
\* the directory has no metadata file; os.remove may raise
RemovePartialCheckpoint ==
    /\ bpc = "prune"
    /\ \E n \in marker_paths :
         /\ marker_paths' = marker_paths \ {n}
         /\ IF Cardinality(metadata_file(trial_path[n])) < 1
            THEN \/ /\ trial_path' = [trial_path EXCEPT ![n] = @ \ {is_checkpoint}]
                    /\ UNCHANGED bpc
                 \/ /\ bpc' = "raised"
                    /\ UNCHANGED trial_path
            ELSE UNCHANGED <<trial_path, bpc>>
    /\ UNCHANGED <<remote_checkpoint_dir, at_prune, at_query, best_model_path,
                   materialized, confVars, nonBestVars>>

\* checkpoint = analysis.get_best_checkpoint(trial_path): it raises (logged,
\* None is yielded), returns None, or returns a checkpoint that carries its
\* marker, which as_directory() materializes in a temporary directory
GetBestCheckpoint ==
    /\ bpc = "prune"
    /\ marker_paths = {}
    /\ at_query' = trial_path
    /\ \/ /\ best_model_path' = None
          /\ materialized' = FALSE
          /\ bpc' \in {"held_after_error", "held"}
       \/ /\ \E n \in Ckpts : is_checkpoint \in trial_path[n]
          /\ best_model_path' = "path"
          /\ materialized' = TRUE
          /\ bpc' = "held"
    /\ UNCHANGED <<remote_checkpoint_dir, trial_path, marker_paths, at_prune,
                   confVars, nonBestVars>>

\* the temporary directory is removed only when the caller's block ends
\* without an error
leave_without_finally(temp_dir, caller_raised) ==
    IF caller_raised THEN temp_dir ELSE FALSE

\* leaving "with checkpoint.as_directory() as path: yield path": the
\* caller's error is thrown in at the yield and the with block is left, so
\* the temporary directory is removed either way
leave(temp_dir, caller_raised) == FALSE

\* the caller's with block ends, normally or with an error
CallerLeaves ==
    /\ bpc \in {"held", "held_after_error"}
    /\ \E caller_raised \in BOOLEAN :
         /\ materialized' = leave(materialized, caller_raised)
         /\ bpc' = IF caller_raised THEN "caller_raised" ELSE "done"
    /\ UNCHANGED <<remote_checkpoint_dir, trial_path, marker_paths, at_prune,
                   at_query, best_model_path, confVars, nonBestVars>>

\* --------------------------------------------------------- search stopper
\* the callbacks argument: None, or a list of callbacks, each standing for
\* what its should_stop_hyperopt answers
StopperArgs ==
    {[none |-> TRUE, list |-> <<>>]}
    \cup {[none |-> FALSE, list |-> l] :
            l \in UNION {[1..n -> BOOLEAN] : n \in 0..MaxCallbacks}}

StopIdle ==
    /\ callbacks_arg = [none |-> TRUE, list |-> <<>>]
    /\ callbacks = <<>>
    /\ stop_all_ret = <<>>
    /\ call_ret = <<>>
    /\ spc = "off"

StopInit ==
    /\ callbacks_arg \in StopperArgs
    /\ callbacks = <<>>
    /\ stop_all_ret = <<>>
    /\ call_ret = <<>>
    /\ spc = "init"

\* CallbackStopper.__init__: self.callbacks = callbacks or []
StopperNew ==
    /\ spc = "init"
    /\ callbacks' = IF callbacks_arg.none \/ callbacks_arg.list = <<>>
                    THEN <<>>
                    ELSE callbacks_arg.list
    /\ spc' = "ready"
    /\ UNCHANGED <<callbacks_arg, stop_all_ret, call_ret, confVars, nonStopVars>>

\* a callback comes to answer should_stop_hyperopt differently
ShouldStopChanges(i) ==
    /\ spc = "ready"
    /\ i \in DOMAIN callbacks
    /\ callbacks' = [callbacks EXCEPT ![i] = ~@]
    /\ UNCHANGED <<callbacks_arg, stop_all_ret, call_ret, spc, confVars,
                   nonStopVars>>

RECURSIVE StopAllFrom(_, _)
\* for callback in self.callbacks: if callback.should_stop_hyperopt(): return True
StopAllFrom(self_callbacks, i) ==
    IF i > Len(self_callbacks) THEN FALSE
    ELSE IF self_callbacks[i] THEN TRUE
    ELSE StopAllFrom(self_callbacks, i + 1)

\* true only when every callback asks to stop
stop_all_unanimous(self_callbacks) ==
    \A i \in DOMAIN self_callbacks : self_callbacks[i]

\* CallbackStopper.stop_all
stop_all(self_callbacks) == StopAllFrom(self_callbacks, 1)

\* the scheduler asks whether to stop the whole search
StopAll ==
    /\ spc = "ready"
    /\ stop_all_ret' = <<[answers |-> callbacks, out |-> stop_all(callbacks)]>>
    /\ UNCHANGED <<callbacks_arg, callbacks, call_ret, spc, confVars,
                   nonStopVars>>

\* CallbackStopper.__call__(trial_id, result): return False
stopper_call(trial_id, result) == FALSE

\* the scheduler asks whether to stop one trial after a result
StopperCall ==
    /\ spc = "ready"
    /\ \E trial_id \in 1..MaxTrials, result \in 1..MaxScore :
         call_ret' = <<[trial_id |-> trial_id, result |-> result,
                        out |-> stopper_call(trial_id, result)]>>
    /\ UNCHANGED <<callbacks_arg, callbacks, stop_all_ret, spc, confVars,
                   nonStopVars>>

\* ------------------------------------------------------- start of a trial
\* the search-space parameters of the trial and the keys callbacks inject
SearchParams == {"lr", "p"}
InjectedKeys == {"mlflow", "wandb"}

\* self.decode_ctx of the executor: "p" was encoded as JSON
SetupCtx == ("p" :> "json.loads")

\* a mapping with string keys as a Python dict, keys in insertion order
KeyOrder == <<"lr", "p", "model_type", "mlflow", "wandb">>
ToDict(f) ==
    LET Has(k) == k \in DOMAIN f
        keys == SelectSeq(KeyOrder, Has)
    IN Dict([i \in 1..Len(keys) |-> Member("str", <<keys[i]>>, f[keys[i]])])

\* config={**self.search_space, **tune_config} as sampled for one trial
SampledConfigs(injected) ==
    {("lr" :> lr) @@ ("p" :> pv) @@ [k \in injected |-> Dict(<<>>)] :
        lr \in {Num(1), Num(2)},
        pv \in {json_dumps(List(<<Num(1), Num(2)>>)), json_dumps(Dict(<<>>))}}

\* hyperopt_dict["config"]: the base configuration of the experiment
BaseConfigs ==
    {("lr" :> lr) @@ ("p" :> List(<<>>)) @@ ("model_type" :> Str(<<"ecd">>)) :
        lr \in {Num(1), Num(2)}}

SetupIdle ==
    /\ tune_config = {}
    /\ sampled_config = <<>>
    /\ hyperopt_dict_config = <<>>
    /\ modified_config = <<>>
    /\ trial_hyperparameters = <<>>
    /\ merged_params = <<>>
    /\ upc = "off"

SetupInit ==
    /\ tune_config \in SUBSET InjectedKeys
    /\ sampled_config \in SampledConfigs(tune_config)
    /\ hyperopt_dict_config \in BaseConfigs
    /\ modified_config = <<>>
    /\ trial_hyperparameters = <<>>
    /\ merged_params = <<>>
    /\ upc = "decode"

\* config = self.decode_values(config, decode_ctx)
DecodeConfig ==
    /\ upc = "decode"
    /\ sampled_config' = decode_values(sampled_config, SetupCtx)
    /\ upc' = "strip"
    /\ UNCHANGED <<tune_config, hyperopt_dict_config, modified_config,
                   trial_hyperparameters, merged_params, confVars,
                   nonSetupVars>>

\* if "mlflow" in config: del config["mlflow"]
remove_mlflow(cfg) == [k \in DOMAIN cfg \ {"mlflow"} |-> cfg[k]]

RemoveMlflow ==
    /\ upc = "strip"
    /\ sampled_config' = remove_mlflow(sampled_config)
    /\ upc' = "merge"
    /\ UNCHANGED <<tune_config, hyperopt_dict_config, modified_config,
                   trial_hyperparameters, merged_params, confVars,
                   nonSetupVars>>

\* ludwig.hyperopt.utils.substitute_parameters: the sampled values overlaid
\* on the configuration
substitute_parameters(cfg, parameter_values) == parameter_values @@ cfg

\* modified_config = substitute_parameters(copy.deepcopy(...), config)
SubstituteParameters ==
    /\ upc = "merge"
    /\ modified_config' = substitute_parameters(hyperopt_dict_config, sampled_config)
    /\ merged_params' = sampled_config
    /\ upc' = "write"
    /\ UNCHANGED <<tune_config, sampled_config, hyperopt_dict_config,
                   trial_hyperparameters, confVars, nonSetupVars>>

\* with open(trial_dir / "trial_hyperparameters.json", "w") as f: json.dump
WriteTrialHyperparameters ==
    /\ upc = "write"
    /\ trial_hyperparameters' = <<json_dumps(ToDict(hyperopt_dict_config))>>
    /\ upc' = "assign"
    /\ UNCHANGED <<tune_config, sampled_config, hyperopt_dict_config,
                   modified_config, merged_params, confVars, nonSetupVars>>

\* hyperopt_dict["config"] = ModelConfig.from_dict(modified_config).to_dict();
\* from_dict raises for a configuration that does not validate
AssignConfig ==
    /\ upc = "assign"
    /\ \/ /\ hyperopt_dict_config' = modified_config
          /\ upc' = "ready"
       \/ /\ upc' = "failed"
          /\ UNCHANGED hyperopt_dict_config
    /\ UNCHANGED <<tune_config, sampled_config, modified_config,
                   trial_hyperparameters, merged_params, confVars,
                   nonSetupVars>>

\* _run(): run_experiment(**hyperopt_dict, parameters=config)
SetupRun ==
    /\ upc = "ready"
    /\ upc' = "train"
    /\ UNCHANGED <<tune_config, sampled_config, hyperopt_dict_config,
                   modified_config, trial_hyperparameters, merged_params,
                   confVars, nonSetupVars>>

\* ------------------------------------------------------------ set_values
\* the values of a configuration: a number, or a mapping of field names to
\* numbers
Scalar(n) == [kind |-> "int", v |-> n, fields |-> <<>>]
Mapping(f) == [kind |-> "dict", v |-> 0, fields |-> f]
ConfigKeys == {"a", "b"}
FieldNames == {"x", "y"}
ConfigValues ==
    {Scalar(n) : n \in 1..MaxVal}
    \cup {Mapping(f) : f \in UNION {[S -> 1..MaxVal] : S \in SUBSET FieldNames}}

\* the dictionaries over ConfigKeys
ConfigDicts == UNION {[S -> ConfigValues] : S \in SUBSET ConfigKeys}

\* the orders in which a dictionary may yield its keys
KeyOrders(d) ==
    {o \in UNION {[1..n -> DOMAIN d] : n \in 0..Cardinality(ConfigKeys)} :
        /\ Len(o) = Cardinality(DOMAIN d)
        /\ \A i, j \in 1..Len(o) : i # j => o[i] # o[j]}

\* one turn of the outer loop of set_values for (key, value):
\* [model_dict |-> the dictionary afterwards, raised |-> the exception]
set_value(key, value, md) ==
    IF value.kind = "dict"
    THEN IF DOMAIN value.fields = {}
         THEN [model_dict |-> md, raised |-> None]
         ELSE IF key \notin DOMAIN md
         THEN [model_dict |-> (key :> Mapping(value.fields)) @@ md,
               raised |-> None]
         ELSE IF md[key].kind = "dict"
         THEN [model_dict |->
                  [md EXCEPT ![key] = Mapping(value.fields @@ md[key].fields)],
               raised |-> None]
         ELSE [model_dict |-> md, raised |-> "TypeError"]
    ELSE [model_dict |-> (key :> value) @@ md, raised |-> None]

RECURSIVE SetValuesFrom(_, _, _, _)
\* for key, value in params.items(): ..., from the i-th key on
SetValuesFrom(order, i, ps, md) ==
    IF i > Len(order) THEN [model_dict |-> md, raised |-> None]
    ELSE LET r == set_value(order[i], ps[order[i]], md)
         IN IF r.raised # None THEN r
            ELSE SetValuesFrom(order, i + 1, ps, r.model_dict)

\* set_values(params, model_dict)
set_values(order, ps, md) == SetValuesFrom(order, 1, ps, md)

OverlayIdle ==
    /\ params = <<>>
    /\ params_order = <<>>
    /\ model_dict = <<>>
    /\ model_dict_before = <<>>
    /\ set_values_raised = None
    /\ vpc = "off"

OverlayInit ==
    /\ params \in ConfigDicts
    /\ params_order \in KeyOrders(params)
    /\ model_dict \in ConfigDicts
    /\ model_dict_before = model_dict
    /\ set_values_raised = None
    /\ vpc = "call"

\* the call set_values(params, model_dict)
SetValues ==
    /\ vpc = "call"
    /\ LET r == set_values(params_order, params, model_dict)
       IN /\ model_dict' = r.model_dict
          /\ set_values_raised' = r.raised
          /\ vpc' = IF r.raised = None THEN "returned" ELSE "raised"
    /\ UNCHANGED <<params, params_order, model_dict_before, confVars,
                   nonOverlayVars>>

\* ------------------------------------- metric score of evaluation statistics
\* key in d, and d[key], for a dict value
HasKey(d, key) == \E i \in DOMAIN d.items : d.items[i].k = <<key>>
GetItem(d, key) == d.items[CHOOSE i \in DOMAIN d.items : d.items[i].k = <<key>>].x

\* self.metric.split(".") for the metric names of the model
metric_parts(m) ==
    IF m = "overall_stats.avg" THEN <<"overall_stats", "avg">> ELSE <<m>>

\* the values a statistic may hold
Real(lexeme) == Value("float", <<lexeme>>, <<>>)
Terminals ==
    {Real("0.5"), Real("2.0"), Value("int", <<"1">>, <<>>),
     Value("int", <<"2">>, <<>>), Value("str", <<"a">>, <<>>),
     Value("NoneType", <<>>, <<>>), Value("dict", <<>>, <<>>),
     Value("bool", <<"True">>, <<>>)}

Entry(key, x) == Value("dict", <<>>, <<Member("str", <<key>>, x)>>)

\* the eval_stats handed to get_metric_score_from_eval_stats
EvalStatsArgs ==
    {Value("dict", <<>>, <<>>), Entry(other_feature, Entry("accuracy", Real("0.5")))}
    \cup {Entry(output_feature, t) : t \in Terminals}
    \cup {Entry(output_feature, Entry("accuracy", t)) : t \in Terminals}
    \cup {Entry(output_feature, Entry("overall_stats", t)) : t \in Terminals}
    \cup {Entry(output_feature, Entry("overall_stats", Entry("avg", t))) :
             t \in Terminals}

EvalScore(x) == [ok |-> TRUE, v |-> x, from |-> "eval_stats"]
EvalError(e) == [ok |-> FALSE, v |-> Value("NoneType", <<>>, <<>>), from |-> e]

RECURSIVE WalkMetric(_, _, _)
\* the loop over the metric parts, then the test of the value reached
WalkMetric(st, parts, i) ==
    IF i > Len(parts)
    THEN IF st.t # "float" THEN EvalError("ValueError") ELSE EvalScore(st)
    ELSE IF st.t = "dict"
    THEN IF HasKey(st, parts[i])
         THEN WalkMetric(GetItem(st, parts[i]), parts, i + 1)
         ELSE EvalError("ValueError")
    ELSE EvalError("ValueError")

\* RayTuneExecutor.get_metric_score_from_eval_stats
get_metric_score_from_eval_stats(eval_stats) ==
    IF ~HasKey(eval_stats, output_feature) THEN EvalError("KeyError")
    ELSE WalkMetric(GetItem(eval_stats, output_feature), metric_parts(metric), 1)

EvalMetricInit ==
    /\ given_stats \in EvalStatsArgs
    /\ score_out = EvalError(None)
    /\ mpc = "call"

\* the call get_metric_score_from_eval_stats(eval_stats)
GetMetricScoreFromEvalStats ==
    /\ mpc = "call"
    /\ score_out' = get_metric_score_from_eval_stats(given_stats)
    /\ mpc' = IF get_metric_score_from_eval_stats(given_stats).ok
              THEN "returned" ELSE "raised"
    /\ UNCHANGED <<given_stats, confVars, nonMetricVars>>

\* ------------------------------------------------ sort_hyperopt_results
\* the attributes RayTuneExecutor.__init__ assigns on self
InitAttributes ==
    {"output_feature", "metric", "split", "search_space", "decode_ctx",
     "num_samples", "goal", "search_algorithm", "scheduler", "trial_id",
     "cpu_resources_per_trial", "gpu_resources_per_trial",
     "kubernetes_namespace", "time_budget_s", "max_concurrent_trials",
     "sync_config", "sync_client", "head_node_ip"}

Goals == {MINIMIZE, MAXIMIZE}
Splits == {TRAINING, VALIDATION, TEST}

\* RayTuneExecutor(parameters, output_feature, metric, goal, split, ...): the
\* object __init__ leaves, attribute name -> value (the values that play no
\* part here are left opaque)
RayTuneExecutor(output_feature_arg, metric_arg, goal_arg, split_arg) ==
    [a \in InitAttributes |->
        CASE a = "output_feature" -> output_feature_arg
          [] a = "metric" -> metric_arg
          [] a = "goal" -> goal_arg
          [] a = "split" -> split_arg
          [] OTHER -> "..."]

\* obj.name: the attribute's value, or AttributeError when obj has none
getattr(obj, name) ==
    IF name \in DOMAIN obj THEN [ok |-> TRUE, v |-> obj[name]]
    ELSE [ok |-> FALSE, v |-> "AttributeError"]

\* the trial results handed to the sort: metric_score of each, in order
TrialResult(trial_id, metric_score) ==
    [trial_id |-> trial_id, metric_score |-> metric_score]

HyperoptResults ==
    UNION {{[i \in 1..n |-> TrialResult(i, scores[i])] :
              scores \in [1..n -> 0..MaxScore]} : n \in 0..MaxTrials}

\* where sorted() puts x among the already sorted xs: behind everything that
\* does not come strictly after it (the sort is stable, also when reversed)
RECURSIVE InsertSorted(_, _, _)
InsertSorted(x, xs, reverse) ==
    IF xs = <<>> THEN <<x>>
    ELSE LET after == IF reverse
                      THEN x.metric_score > Head(xs).metric_score
                      ELSE x.metric_score < Head(xs).metric_score
         IN IF after THEN <<x>> \o xs
            ELSE <<Head(xs)>> \o InsertSorted(x, Tail(xs), reverse)

\* sorted(xs, key=lambda hp_res: hp_res.metric_score, reverse=reverse)
RECURSIVE SortedFrom(_, _, _)
SortedFrom(xs, acc, reverse) ==
    IF xs = <<>> THEN acc
    ELSE SortedFrom(Tail(xs), InsertSorted(Head(xs), acc, reverse), reverse)

py_sorted(xs, reverse) == SortedFrom(xs, <<>>, reverse)

\* RayTuneExecutor.sort_hyperopt_results: the reverse argument is evaluated
\* (self.hyperopt_sampler.goal == MAXIMIZE) before sorted() is called
sort_hyperopt_results(self, results_arg) ==
    LET hyperopt_sampler == getattr(self, "hyperopt_sampler")
    IN IF ~hyperopt_sampler.ok
       THEN [raised |-> hyperopt_sampler.v, ret |-> <<>>]
       ELSE LET sampler_goal == getattr(hyperopt_sampler.v, "goal")
            IN IF ~sampler_goal.ok
               THEN [raised |-> sampler_goal.v, ret |-> <<>>]
               ELSE [raised |-> None,
                     ret |-> py_sorted(results_arg, sampler_goal.v = MAXIMIZE)]

SortIdle ==
    /\ executor = RayTuneExecutor(output_feature, "accuracy", MAXIMIZE, TRAINING)
    /\ hyperopt_results = <<>>
    /\ sort_ret = <<>>
    /\ sort_raised = None
    /\ qpc = "off"

SortInit ==
    /\ \E m \in Metrics, g \in Goals, sp \in Splits :
         executor = RayTuneExecutor(output_feature, m, g, sp)
    /\ hyperopt_results \in HyperoptResults
    /\ sort_ret = <<>>
    /\ sort_raised = None
    /\ qpc = "call"

\* executor.sort_hyperopt_results(hyperopt_results)
SortHyperoptResults ==
    /\ qpc = "call"
    /\ LET r == sort_hyperopt_results(executor, hyperopt_results)
       IN /\ sort_ret' = r.ret
          /\ sort_raised' = r.raised
          /\ qpc' = IF r.raised = None THEN "returned" ELSE "raised"
    /\ UNCHANGED <<executor, hyperopt_results, confVars, nonSortVars>>

\* ---------------------------------------------------------- specifications
\* one trial run by _run_experiment, in direct or delegated mode
Init ==
    /\ metric \in Metrics /\ goal = MAXIMIZE /\ eval_rounds = MaxEvals
    /\ TrialInit /\ CkptIdle /\ ResumeIdle /\ CodecIdle /\ MetricIdle
    /\ ExecIdle /\ BestIdle /\ StopIdle /\ SetupIdle /\ OverlayIdle /\ SortIdle

Next ==
    \/ StartTrial
    \/ TrainStep
    \/ on_eval_end
    \/ on_trainer_train_teardown
    \/ TrainReturn
    \/ TrainRaise
    \/ PollAlive
    \/ CheckQueueSize
    \/ GetBatch
    \/ Checkpoint
    \/ Report
    \/ Collect

Spec == Init /\ [][Next]_vars

\* the same trial with a driver that keeps running: the trial-owning context
\* is scheduled by Ray Tune until _run_experiment returns or raises, and its
\* poll loop sleeps 0.1 s per round; nothing is assumed about the worker
FairSpec ==
    /\ Spec
    /\ WF_vars(PollAlive)
    /\ WF_vars(CheckQueueSize)
    /\ WF_vars(GetBatch)
    /\ WF_vars(Checkpoint)
    /\ WF_vars(Report)
    /\ WF_vars(Collect)

\* one trial in direct mode whose training run goes through one evaluation
\* round more: the hooks checkpoint and report in the training run's context
InitDirect ==
    /\ metric \in Metrics /\ goal = MAXIMIZE /\ eval_rounds = MaxEvals + 1
    /\ TrialInit /\ ~is_using_ray_backend
    /\ CkptIdle /\ ResumeIdle /\ CodecIdle /\ MetricIdle
    /\ ExecIdle /\ BestIdle /\ StopIdle /\ SetupIdle /\ OverlayIdle /\ SortIdle

NextDirect ==
    \/ StartTrial
    \/ TrainStep
    \/ on_eval_end
    \/ on_trainer_train_teardown
    \/ TrainReturn
    \/ TrainRaise
    \/ Checkpoint
    \/ Report
    \/ Collect

SpecDirect == InitDirect /\ [][NextDirect]_vars

\* concurrent checkpoint() calls staging into one checkpoint directory
InitCheckpoint ==
    metric = "accuracy" /\ goal = MAXIMIZE /\ eval_rounds = MaxEvals /\ TrialIdle /\ CkptInit /\ ResumeIdle
    /\ CodecIdle /\ MetricIdle /\ ExecIdle /\ BestIdle /\ StopIdle /\ SetupIdle /\ OverlayIdle /\ SortIdle

NextCheckpoint ==
    \/ \E c \in Calls : IsDir(c)
    \/ \E c \in Calls : CopyFile(c)
    \/ \E c \in Calls : CopyDone(c)
    \/ \E c \in Calls : CopyRaise(c)
    \/ \E c \in Calls : Rename(c)
    \/ \E c \in Calls : RmTree(c)

SpecCheckpoint == InitCheckpoint /\ [][NextCheckpoint]_vars

\* the workers of a delegated trial running on_trainer_train_setup
InitResume ==
    metric = "accuracy" /\ goal = MAXIMIZE /\ eval_rounds = MaxEvals /\ TrialIdle /\ CkptIdle /\ ResumeInit
    /\ CodecIdle /\ MetricIdle /\ ExecIdle /\ BestIdle /\ StopIdle /\ SetupIdle /\ OverlayIdle /\ SortIdle

NextResume ==
    \/ \E w \in LocalRanks : SetupEnter(w)
    \/ Backup
    \/ Move
    \/ Rollback
    \/ Cleanup
    \/ Barrier
    \/ Retry

SpecResume == InitResume /\ [][NextResume]_vars

\* the same, with every worker a running process: a worker that can take its
\* next step in the handler takes it, and the barrier releases the workers
\* once all have arrived
FairResume ==
    /\ SpecResume
    /\ \A w \in LocalRanks : WF_vars(SetupEnter(w))
    /\ WF_vars(Backup) /\ WF_vars(Move) /\ WF_vars(Rollback)
    /\ WF_vars(Cleanup) /\ WF_vars(Barrier)

\* encoding the search space, sampling a config and decoding it in the trial
InitCodec ==
    metric = "accuracy" /\ goal = MAXIMIZE /\ eval_rounds = MaxEvals /\ TrialIdle /\ CkptIdle /\ ResumeIdle
    /\ CodecInit /\ MetricIdle
    /\ ExecIdle /\ BestIdle /\ StopIdle /\ SetupIdle /\ OverlayIdle /\ SortIdle

NextCodec ==
    \/ GetSearchSpace
    \/ Sample
    \/ Decode

SpecCodec == InitCodec /\ [][NextCodec]_vars

\* building the search space from definitions of every kind
InitSearchSpace ==
    metric = "accuracy" /\ goal = MAXIMIZE /\ eval_rounds = MaxEvals /\ TrialIdle /\ CkptIdle /\ ResumeIdle
    /\ SearchSpaceInit /\ MetricIdle
    /\ ExecIdle /\ BestIdle /\ StopIdle /\ SetupIdle /\ OverlayIdle /\ SortIdle

SpecSearchSpace == InitSearchSpace /\ [][NextCodec]_vars

\* one call of get_metric_score on any training statistics
InitMetric ==
    /\ metric \in Metrics /\ goal = MAXIMIZE /\ eval_rounds = MaxEvals
    /\ TrialIdle /\ CkptIdle /\ ResumeIdle /\ CodecIdle /\ MetricInit
    /\ ExecIdle /\ BestIdle /\ StopIdle /\ SetupIdle /\ OverlayIdle /\ SortIdle

NextMetric == GetMetricScore

SpecMetric == InitMetric /\ [][NextMetric]_vars

\* one call of get_metric_score_from_eval_stats on any evaluation statistics
InitEvalMetric ==
    /\ metric \in {"accuracy", "overall_stats.avg"} /\ goal = MAXIMIZE /\ eval_rounds = MaxEvals
    /\ TrialIdle /\ CkptIdle /\ ResumeIdle /\ CodecIdle /\ EvalMetricInit
    /\ ExecIdle /\ BestIdle /\ StopIdle /\ SetupIdle /\ OverlayIdle /\ SortIdle

NextEvalMetric == GetMetricScoreFromEvalStats

SpecEvalMetric == InitEvalMetric /\ [][NextEvalMetric]_vars

\* execute after the search: ordering, NaN handling and backfill
InitExecute ==
    /\ metric = "accuracy" /\ goal \in {MAXIMIZE, MINIMIZE} /\ eval_rounds = MaxEvals
    /\ TrialIdle /\ CkptIdle /\ ResumeIdle /\ CodecIdle /\ MetricIdle
    /\ ExecInit /\ BestIdle /\ StopIdle /\ SetupIdle /\ OverlayIdle /\ SortIdle

NextExecute ==
    \/ TuneRun
    \/ SortValues
    \/ CatchNans
    \/ Backfill
    \/ Finish

SpecExecute == InitExecute /\ [][NextExecute]_vars

\* one use of _get_best_model_path on a stopped trial
InitBest ==
    /\ metric = "accuracy" /\ goal = MAXIMIZE /\ eval_rounds = MaxEvals
    /\ TrialIdle /\ CkptIdle /\ ResumeIdle /\ CodecIdle /\ MetricIdle
    /\ ExecIdle /\ BestInit /\ StopIdle /\ SetupIdle /\ OverlayIdle /\ SortIdle

NextBest ==
    \/ SyncDown
    \/ RemovePartialCheckpoint
    \/ GetBestCheckpoint
    \/ CallerLeaves

SpecBest == InitBest /\ [][NextBest]_vars

\* the stopper of tune.run, polled by the scheduler
InitStopper ==
    /\ metric = "accuracy" /\ goal = MAXIMIZE /\ eval_rounds = MaxEvals
    /\ TrialIdle /\ CkptIdle /\ ResumeIdle /\ CodecIdle /\ MetricIdle
    /\ ExecIdle /\ BestIdle /\ StopInit /\ SetupIdle /\ OverlayIdle /\ SortIdle

NextStopper ==
    \/ StopperNew
    \/ \E i \in 1..MaxCallbacks : ShouldStopChanges(i)
    \/ StopAll
    \/ StopperCall

SpecStopper == InitStopper /\ [][NextStopper]_vars

\* the start of a trial up to the training run
InitSetup ==
    /\ metric = "accuracy" /\ goal = MAXIMIZE /\ eval_rounds = MaxEvals
    /\ TrialIdle /\ CkptIdle /\ ResumeIdle /\ CodecIdle /\ MetricIdle
    /\ ExecIdle /\ BestIdle /\ StopIdle /\ SetupInit /\ OverlayIdle /\ SortIdle

NextSetup ==
    \/ DecodeConfig
    \/ RemoveMlflow
    \/ SubstituteParameters
    \/ WriteTrialHyperparameters
    \/ AssignConfig
    \/ SetupRun

SpecSetup == InitSetup /\ [][NextSetup]_vars

\* set_values on arbitrary dictionaries
InitOverlay ==
    /\ metric = "accuracy" /\ goal = MAXIMIZE /\ eval_rounds = MaxEvals
    /\ TrialIdle /\ CkptIdle /\ ResumeIdle /\ CodecIdle /\ MetricIdle
    /\ ExecIdle /\ BestIdle /\ StopIdle /\ SetupIdle /\ OverlayInit /\ SortIdle

NextOverlay == SetValues

SpecOverlay == InitOverlay /\ [][NextOverlay]_vars

\* one call of sort_hyperopt_results on an executor built by __init__
InitSort ==
    /\ metric = "accuracy" /\ goal = MAXIMIZE /\ eval_rounds = MaxEvals
    /\ TrialIdle /\ CkptIdle /\ ResumeIdle /\ CodecIdle /\ MetricIdle
    /\ ExecIdle /\ BestIdle /\ StopIdle /\ SetupIdle /\ OverlayIdle /\ SortInit

NextSort == SortHyperoptResults

SpecSort == InitSort /\ [][NextSort]_vars

\* -------------------------------------------------------------- properties
\* ---- properties of the trial runner
IsReport(e) == e.op = "report"
IsCheckpoint(e) == e.op = "checkpoint"
ItemsOf(entries) == [i \in 1..Len(entries) |-> entries[i].item]
\* the pairs reported so far by tune.report (intermediate reports), in order
Reported == ItemsOf(SelectSeq(log, IsReport))
\* the pairs handed to checkpoint() so far, in order
Checkpointed == ItemsOf(SelectSeq(log, IsCheckpoint))
IsPrefix(s, t) == Len(s) <= Len(t) /\ SubSeq(t, 1, Len(s)) = s

WorkerTerminated == wpc \in {"returned", "raised"}

\* C28: in delegated mode the driver never blocks on the queue: a poll that
\* finds the queue empty goes on at once and takes nothing; a poll that
\* finds items takes exactly as many as it counted, all of them present
\* (get_nowait_batch never finds fewer), from the front and in order; the
\* final drain happens once, after the worker terminated, and the poll loop
\* is not entered again afterwards; and once the worker has terminated the
\* driver eventually finishes with the final report or with a failure.
C28_DriverNeverBlocks ==
    /\ [](is_using_ray_backend =>
            /\ dpc = "get" => qsize \in 1..Len(ray_queue)
            /\ final => WorkerTerminated
            /\ dpc \in {"collect", "completed"} => final /\ ray_queue = <<>>)
    /\ [][is_using_ray_backend =>
            /\ dpc = "qsize" /\ dpc' # "qsize" =>
                 /\ qsize' = Len(ray_queue)
                 /\ ray_queue' = ray_queue /\ results' = results
                 /\ ray_queue = <<>> =>
                      dpc' = IF final THEN "collect" ELSE "alive"
                 /\ ray_queue # <<>> => dpc' = "get"
            /\ dpc = "get" /\ dpc' # "get" =>
                 /\ Len(results') = qsize
                 /\ results' \o ray_queue' = ray_queue
            /\ final => final'
            /\ final /\ dpc # "qsize" => dpc' # "qsize"
            /\ dpc = "collect" => dpc' \in {"collect", "completed", "failed"}
         ]_vars
    /\ (is_using_ray_backend /\ WorkerTerminated)
           ~> (dpc \in {"completed", "failed"})

\* the worker terminated while the driver was polling an empty queue and
\* had left pairs behind: the final drain handled them and the trial ended
C28_Witness ==
    /\ is_using_ray_backend
    /\ WorkerTerminated
    /\ final
    /\ dpc \in {"completed", "failed"}
    /\ Reported # <<>>
    /\ \E i \in 1..Len(log) : log[i].op \in {"final", "raise"}

\* the checkpoint() invocations of the trial that returned, in order
Invocations == SelectSeq(log, IsCheckpoint)

\* C29 (as claimed): every invocation of checkpoint() for a trial uses a
\* slot that no earlier invocation of the trial used, and when it has
\* returned that slot holds a copy of the model directory it was handed.
C29_FreshSlotPerInvocation ==
    /\ \A i, j \in 1..Len(Invocations) :
          i < j => Invocations[i].item.pt.tune_checkpoint_num
                     # Invocations[j].item.pt.tune_checkpoint_num
    /\ dpc = "report" =>
          LET item == Head(results)
              n == item.pt.tune_checkpoint_num
          IN n \in DOMAIN slots /\ slots[n] = item.ckpt

\* C30 (as claimed): every published report is directly preceded by the
\* checkpoint() invocation for the same progress event, that invocation
\* staged the event's model snapshot, and the snapshot is in the trial's
\* checkpoint directory when the report is published; in direct mode the
\* training run does not go on while an event is checkpointed and reported.
C30_StagedBeforeReported ==
    /\ [](\A i \in 1..Len(log) :
            log[i].op = "report" =>
                /\ i > 1
                /\ log[i - 1].op = "checkpoint"
                /\ log[i - 1].item = log[i].item
                /\ log[i - 1].staged
                /\ log[i].item.pt.tune_checkpoint_num \in DOMAIN slots
                /\ slots[log[i].item.pt.tune_checkpoint_num] = log[i].item.ckpt)
    /\ [][~is_using_ray_backend /\ dpc \in {"ckpt", "report"} =>
            progress_tracker' = progress_tracker /\ produced' = produced]_vars

\* a tune.report call of the trial, intermediate or final
IsPublished(e) == e.op \in {"report", "final"}

\* C33: every intermediate report carries empty evaluation statistics,
\* whether it is published before or after the training run returned; a
\* report published while the training run has not returned carries empty
\* evaluation statistics; a report with non-empty evaluation statistics is
\* the final report: there is one at most, it is the last thing the trial
\* published, it was issued after the training run returned its statistics,
\* and the trial is completed.
C33_OnlyFinalReportCarriesEvalStats ==
    /\ [](\A i \in 1..Len(log) :
            /\ log[i].op = "report" => log[i].eval_stats = "{}"
            /\ log[i].op = "final" =>
                  \A j \in 1..Len(log) : log[j].op = "final" => j = i
            /\ IsPublished(log[i]) /\ log[i].eval_stats # "{}" =>
                  /\ log[i].op = "final"
                  /\ i = Len(log)
                  /\ wpc = "returned"
                  /\ dpc = "completed")
    /\ [][wpc # "returned" /\ log' # log /\ IsPublished(log'[Len(log')]) =>
            log'[Len(log')].eval_stats = "{}"]_vars

\* a completed trial that published intermediate reports and whose final
\* report carries the evaluation statistics of the training run
C33_Witness ==
    /\ dpc = "completed"
    /\ Len(Reported) >= 1
    /\ log[Len(log)].op = "final"
    /\ log[Len(log)].eval_stats # "{}"

\* the metric_score values the trial published so far, in order
Published == SelectSeq(log, IsPublished)

\* a is at least as good as b in the best direction of the metric
NotWorse(a, b) ==
    IF get_best_function(metric) = "max" THEN a >= b ELSE a <= b

\* C34: the metric histories of a trial only grow by appending and its
\* scoring split stays the same (the training run either evaluates a
\* validation split in every round or in none); then of any two reports of
\* the trial, intermediate or final, the later one carries a metric_score
\* that is not worse in the metric's best direction.
C34_ScoresNeverGetWorse ==
    \A i, j \in 1..Len(Published) :
        i < j => NotWorse(Published[j].metric_score, Published[i].metric_score)

\* a completed direct trial that reported after each of two evaluation
\* rounds, the second round being worse than the first: its final report
\* still carries the score of the first round
C34_Witness ==
    /\ dpc = "completed"
    /\ Len(Published) >= 3
    /\ Len(progress_tracker.train_metrics) >= 2
    /\ ~NotWorse(progress_tracker.train_metrics[2],
                 progress_tracker.train_metrics[1])
    /\ Published[Len(Published)].metric_score
          = progress_tracker.train_metrics[1]

\* C4 (as claimed): the intermediate reports of a trial carry strictly
\* increasing checkpoint sequence numbers.
C4_ReportsStrictlyIncreasing ==
    \A i, j \in 1..Len(Reported) :
        i < j => Reported[i].pt.tune_checkpoint_num
                   < Reported[j].pt.tune_checkpoint_num

\* the abstract state of the trial
TrialState ==
    CASE dpc = "start" -> "STARTED"
      [] dpc = "failed" -> "FAILED"
      [] dpc = "completed" -> "COMPLETED"
      [] dpc \in {"ckpt", "report"} -> "CHECKPOINTING"
      [] OTHER -> "TRAINING"

TrialTransitions ==
    {<<"STARTED", "TRAINING">>, <<"TRAINING", "CHECKPOINTING">>,
     <<"CHECKPOINTING", "TRAINING">>, <<"TRAINING", "COMPLETED">>}
    \cup {<<st, "FAILED">> : st \in {"STARTED", "TRAINING", "CHECKPOINTING"}}

\* C5: a trial moves only along STARTED -> TRAINING -> (CHECKPOINTING ->
\* TRAINING)* -> COMPLETED, or to FAILED; nothing is checkpointed or reported
\* before training starts; the final report is issued only once training has
\* returned its statistics; and no checkpoint or report follows the final
\* report or the failure.
C5_TrialStateMachine ==
    /\ [](/\ TrialState = "STARTED" => log = <<>> /\ slots = <<>>
          /\ \A i \in 1..Len(log) :
               /\ log[i].op = "final" =>
                    i = Len(log) /\ wpc = "returned" /\ TrialState = "COMPLETED"
               /\ log[i].op = "raise" => i = Len(log) /\ TrialState = "FAILED"
          /\ TrialState = "COMPLETED" => log # <<>> /\ log[Len(log)].op = "final"
          /\ TrialState = "FAILED" => log # <<>> /\ log[Len(log)].op = "raise")
    /\ [][/\ TrialState' # TrialState => <<TrialState, TrialState'>> \in TrialTransitions
          /\ TrialState \in {"COMPLETED", "FAILED"} => log' = log /\ slots' = slots
         ]_vars

\* a trial completed after checkpointing and reporting twice
C5_Witness ==
    /\ TrialState = "COMPLETED"
    /\ Len(Reported) >= 2
    /\ slots # <<>>

\* C2: a directory with the final checkpoint name only ever holds the
\* complete copy of one call's model directory (never a partial copy), and
\* a call whose rename failed has left no temporary copy once it returned.
C2_StagingAtomic ==
    /\ fs[checkpoint_model].exists =>
         \E c \in Calls : fs[checkpoint_model].files = CopyOf(c)
    /\ \A c \in Calls :
         c \in rename_failed /\ cpc[c] = "done" => ~fs[tmp_dst(c)].exists

\* a call returned after its rename failed while another call's complete,
\* non-empty copy sits under the final name
C2_Witness ==
    \E c \in Calls :
        /\ c \in rename_failed
        /\ cpc[c] = "done"
        /\ fs[checkpoint_model].exists
        /\ fs[checkpoint_model].files # {}
        /\ CopyOf(c) # {}

\* every call has returned from checkpoint()
AllReturned == \A c \in Calls : cpc[c] = "done"

\* C31: concurrent checkpoint() calls for one slot stage under temporary
\* names that differ from each other and from the final name; whatever the
\* interleaving, the final directory never holds files of two calls or a
\* partial copy; and, no I/O error having occurred, once every call has
\* returned the final directory exists, holds the complete copy of one
\* call, and no temporary directory of any call is left.
C31_ConcurrentStagingOneWinner ==
    /\ \A c, d \in Calls :
          /\ tmp_dst(c) # checkpoint_model
          /\ c # d => tmp_dst(c) # tmp_dst(d)
    /\ \A c, d \in Calls, f, g \in Files :
          {<<f, c>>, <<g, d>>} \subseteq fs[checkpoint_model].files => c = d
    /\ fs[checkpoint_model].exists =>
          \E c \in Calls : fs[checkpoint_model].files = CopyOf(c)
    /\ io_faults = 0 =>
          /\ \A c \in Calls : cpc[c] # "raised"
          /\ AllReturned =>
                /\ fs[checkpoint_model].exists
                /\ \E c \in Calls \ rename_failed :
                      fs[checkpoint_model].files = CopyOf(c)
                /\ \A c \in Calls : ~fs[tmp_dst(c)].exists

\* two calls both staged a complete non-empty copy without any I/O error,
\* one lost the race at the rename, and both have returned
C31_Witness ==
    /\ io_faults = 0
    /\ AllReturned
    /\ \E c, d \in Calls :
          /\ c # d
          /\ c \in rename_failed
          /\ d \notin rename_failed
          /\ CopyOf(c) # {} /\ CopyOf(d) # {}
          /\ fs[checkpoint_model].files = CopyOf(d)

\* C3: when the move of the resumed checkpoint into save_path fails, the
\* handler of local rank 0 ends by raising (it never reaches the barrier),
\* and once it has raised save_path holds what it held when the handler was
\* entered (nothing, if there was nothing).
C3_FailedMoveRestoresSavePath ==
    move_failed =>
        /\ rpc[0] \in {"rollback", "raised"}
        /\ rpc[0] = "raised" =>
             /\ rfs.save_path = before
             /\ rfs.tmp_path = "absent"

\* the move failed part-way over an existing save_path and the handler raised
C3_Witness ==
    /\ move_failed
    /\ rpc[0] = "raised"
    /\ before = "old"
    /\ rfs.save_path = "old"

IsListOrMapping(x) == x.t \in {"list", "dict"}

\* C8: for a parameter whose values / categories entries are lists or
\* mappings, the trial's decoded value of the parameter is the entry that
\* was sampled (decode_values(encode_values(v)) = v), while the scheduler
\* was handed a string for it.
C8_EncodeDecodeRoundTrip ==
    kpc = "done" =>
        \A n \in DOMAIN parameters :
            (/\ parameters[n].key \in ListKeys
             /\ \A i \in 1..Len(parameters[n].entries) :
                 IsListOrMapping(parameters[n].entries[i]))
            => /\ decoded[n] = parameters[n].entries[picked[n]]
               /\ config[n].t = "str"
               /\ n \in DOMAIN decode_ctx

\* the split carries a non-empty value list for the configured feature and
\* metric: split key, feature key and metric key exist
Present(split) ==
    /\ split \in DOMAIN given_stats
    /\ output_feature \in DOMAIN given_stats[split]
    /\ metric \in DOMAIN given_stats[split][output_feature]
    /\ given_stats[split][output_feature][metric] # <<>>

HistoryOf(split) == given_stats[split][output_feature][metric]

\* C9: get_metric_score takes the score from the validation split whenever
\* that is present for the configured feature and metric, otherwise from the
\* training split when that is present, and raises a RuntimeError when
\* neither is present.
C9_ValidationThenTrainingElseError ==
    mpc \in {"returned", "raised"} =>
        /\ Present(VALIDATION) =>
             /\ mpc = "returned"
             /\ score_out.from = VALIDATION
             /\ score_out.v \in Range(HistoryOf(VALIDATION))
        /\ ~Present(VALIDATION) /\ Present(TRAINING) =>
             /\ mpc = "returned"
             /\ score_out.from = TRAINING
             /\ score_out.v \in Range(HistoryOf(TRAINING))
        /\ ~Present(VALIDATION) /\ ~Present(TRAINING) =>
             /\ mpc = "raised"
             /\ ~score_out.ok

\* both splits are present with different values and the validation value
\* was returned
C9_Witness ==
    /\ mpc = "returned"
    /\ Present(VALIDATION) /\ Present(TRAINING)
    /\ Range(HistoryOf(VALIDATION)) \cap Range(HistoryOf(TRAINING)) = {}
    /\ score_out.v \in Range(HistoryOf(VALIDATION))

\* C10: with a non-empty validation history for the configured feature and
\* metric, the score is the best value of the whole history by the metric's
\* direction (the maximum when higher is better, the minimum when lower is
\* better), whichever checkpoint it belongs to.
C10_BestOverWholeHistory ==
    mpc \in {"returned", "raised"} /\ Present(VALIDATION) =>
        /\ mpc = "returned"
        /\ score_out.v \in Range(HistoryOf(VALIDATION))
        /\ \A x \in Range(HistoryOf(VALIDATION)) :
             IF get_best_function(metric) = "max" THEN score_out.v >= x
             ELSE score_out.v <= x

\* the best value of the validation history is not its last value
C10_Witness ==
    /\ mpc = "returned"
    /\ Present(VALIDATION)
    /\ metric = "loss"
    /\ HistoryOf(VALIDATION) = <<2, 1, 2>>
    /\ score_out.v = 1

ScoreAt(i) == ordered_trials[i].metric_score

\* C6: the ordered trial records execute returns are the trials of the
\* results table sorted by metric score, descending when the goal is
\* maximize and ascending when it is minimize.
C6_OrderedByGoal ==
    epc = "done" /\ HasMetricScoreColumn(results_df) =>
        /\ Len(ordered_trials) = Len(results_df)
        /\ {ordered_trials[i].trial_id : i \in 1..Len(ordered_trials)}
             = 1..Len(results_df)
        /\ \A i, j \in 1..Len(ordered_trials) :
             i < j /\ ~ScoreAt(i).nan /\ ~ScoreAt(j).nan =>
                 IF goal = MAXIMIZE THEN ScoreAt(i).x >= ScoreAt(j).x
                 ELSE ScoreAt(i).x <= ScoreAt(j).x

\* two trials reported 3 and 1 and the goal is minimize: the second trial
\* is returned first
C6_Witness ==
    /\ epc = "done"
    /\ goal = MINIMIZE
    /\ Len(results_df) = 2
    /\ results_df[1].metric_score = Float(3)
    /\ results_df[2].metric_score = Float(1)
    /\ ordered_trials[1].trial_id = 2
    /\ ordered_trials[2].trial_id = 1

\* the statistics a trial handed to the results table are empty: an empty
\* mapping, or nothing at all (a trial that never reported)
IsEmptyStats(v) == v.t = "float" \/ json_loads(v) = Dict(<<>>)

\* C7: once the backfill loop has passed a record, the record was selected
\* for backfill if and only if its training statistics are non-empty and
\* its evaluation statistics are empty; a record with both empty (a trial
\* that never reported included) or both non-empty is not selected.
C7_BackfillSelection ==
    epc \in {"backfill", "done"} =>
        \A i \in 1..Len(temp_ordered_trials) :
            i < idx =>
                LET id == temp_ordered_trials[i].trial_id IN
                id \in selected <=>
                    /\ ~IsEmptyStats(results_df[id].training_stats)
                    /\ IsEmptyStats(results_df[id].eval_stats)

\* one trial reported training progress only and the other reported both;
\* only the first was selected
C7_Witness ==
    /\ epc = "done"
    /\ Len(results_df) = 2
    /\ ~IsEmptyStats(results_df[1].training_stats)
    /\ IsEmptyStats(results_df[1].eval_stats)
    /\ ~IsEmptyStats(results_df[2].training_stats)
    /\ ~IsEmptyStats(results_df[2].eval_stats)
    /\ selected = {1}

\* the record of trial id among the records being post-processed
RecordOf(id) ==
    temp_ordered_trials[CHOOSE i \in 1..Len(temp_ordered_trials) :
                            temp_ordered_trials[i].trial_id = id]

\* the record of trial id in the sequence execute returned
ReturnedOf(id) ==
    ordered_trials[CHOOSE i \in 1..Len(ordered_trials) :
                       ordered_trials[i].trial_id = id]

QuietCases == {"no_validation_set", "no_checkpoint", "NotImplementedError"}

\* C17: a record selected for backfill has its evaluation statistics filled
\* from the evaluation when a non-empty validation set was supplied, a best
\* checkpoint was available and the evaluation returned; when there is no
\* validation set or it is empty, no checkpoint is available or evaluate
\* raised NotImplementedError, its evaluation statistics stay empty and
\* execute raises nothing for it.
C17_BackfillOutcome ==
    epc \in {"backfill", "done", "failed"} =>
        /\ \A id \in selected :
             /\ validation_set # "data" <=> cases[id] = "no_validation_set"
             /\ cases[id] = "evaluated" =>
                  /\ RecordOf(id).eval_stats = json_dumps(evaluated_stats)
                  /\ epc = "done" => ReturnedOf(id).eval_stats = evaluated_stats
             /\ cases[id] \in QuietCases =>
                  /\ RecordOf(id).eval_stats = Str(<<"{", "}">>)
                  /\ epc = "done" => ReturnedOf(id).eval_stats = Dict(<<>>)
        /\ exec_error # None =>
             /\ exec_error \notin QuietCases
             /\ \E id \in selected : cases[id] = exec_error
        /\ (\A id \in selected : cases[id] \in QuietCases \cup {"evaluated"}) =>
             exec_error = None /\ epc # "failed"

\* with a validation set, the first selected trial was evaluated from its
\* checkpoint and the second one's evaluation was unsupported
C17_Witness ==
    /\ epc = "done"
    /\ validation_set = "data"
    /\ selected = {1, 2}
    /\ \E a, b \in selected :
         /\ cases[a] = "evaluated"
         /\ ReturnedOf(a).eval_stats = evaluated_stats
         /\ cases[b] = "NotImplementedError"
         /\ ReturnedOf(b).eval_stats = Dict(<<>>)
    /\ exec_error = None

\* C18: when tune.run fails, execute raises a RuntimeError whatever the
\* failure was, and neither sorts nor backfills nor returns records.
C18_RunLoopFailureIsRuntimeError ==
    /\ epc = "raised" =>
         /\ exec_error = "RuntimeError"
         /\ results_df = <<>>
         /\ ordered_trials = <<>>
         /\ temp_ordered_trials = <<>>
         /\ selected = {}
         /\ idx = 0
    /\ exec_error = "RuntimeError" => epc = "raised"

C18_Witness ==
    /\ epc = "raised"
    /\ exec_error = "RuntimeError"
    /\ ordered_trials = <<>>

\* the search ended and analysis.results_df is at hand
SearchFinished == epc \notin {"off", "run", "raised"}

\* C19: when the search ended and no trial reported a score, execute
\* returns an empty sequence of trial records and raises nothing.
C19_NoReportsEmptyResult ==
    SearchFinished /\ (\A i \in 1..Len(results_df) :
                          results_df[i].metric_score.nan) =>
        /\ epc \in {"sort", "done"}
        /\ ordered_trials = <<>>
        /\ exec_error = None

\* two trials ran and neither reported
C19_Witness ==
    /\ epc = "done"
    /\ Len(results_df) = 2
    /\ \A i \in 1..2 : results_df[i].metric_score.nan
    /\ ordered_trials = <<>>
    /\ exec_error = None

\* C11: on a resumed trial no worker is training unless local rank 0 has
\* placed the resumed checkpoint at save_path and left the handler with the
\* others, and once the move into save_path succeeded every worker
\* eventually passes the barrier.
C11_BarrierRendezvous ==
    /\ [](\A w \in LocalRanks :
            rpc[w] = "train" =>
                /\ rpc[0] = "train"
                /\ resume_ckpt_ref # None =>
                     /\ rfs.save_path = "new"
                     /\ rfs.tmp_path = "absent"
                     /\ ~move_failed)
    /\ (rpc[0] = "cleanup") ~> (\A w \in LocalRanks : rpc[w] = "train")

\* a resumed trial whose workers all train on the checkpoint that replaced
\* the old save_path
C11_Witness ==
    /\ resume_ckpt_ref # None
    /\ before = "old"
    /\ rfs.save_path = "new"
    /\ \A w \in LocalRanks : rpc[w] = "train"

\* a fixed capacity: one that does not grow with the run, so it lies below
\* the MaxEvals + 1 pairs the longest run puts on the queue
QueueCapacity == MaxEvals

\* C12 (as claimed): the number of pairs pending on the trial's queue never
\* exceeds a fixed capacity, however slow the driver is.
C12_QueueBounded == Len(ray_queue) <= QueueCapacity

\* C14 (as claimed): a checkpoint() call whose copy or rename failed ends by
\* returning, never by raising, and has left no temporary copy behind.
C14_FailedStagingRecovered ==
    \A c \in Calls :
        /\ cpc[c] # "raised"
        /\ cpc[c] \in {"done", "raised"} => ~fs[tmp_dst(c)].exists

\* C13 (as claimed): when the training worker of a delegated trial has
\* failed and the trial has failed, every pair the worker had put on the
\* queue was checkpointed and reported by the driver.
C13_WorkerFailureKeepsProgress ==
    is_using_ray_backend /\ wpc = "raised" /\ dpc = "failed" =>
        /\ Checkpointed = produced
        /\ Reported = produced

HasMetadata(files) ==
    ".tune_metadata" \in files \/ "checkpoint.tune_metadata" \in files

Queried == bpc \in {"held", "held_after_error", "done", "caller_raised"}

\* C15: when the best checkpoint is queried, no checkpoint directory carries
\* a completion marker without a metadata file, the markers of directories
\* with a metadata file are still there, and nothing but markers was removed.
C15_PrunedBeforeQuery ==
    Queried =>
        \A n \in Ckpts :
            /\ is_checkpoint \in at_query[n] => HasMetadata(at_query[n])
            /\ is_checkpoint \in at_prune[n] /\ HasMetadata(at_prune[n])
                 => is_checkpoint \in at_query[n]
            /\ at_query[n] \ {is_checkpoint} = at_prune[n] \ {is_checkpoint}

\* one checkpoint had a marker but no metadata and lost the marker, another
\* had its metadata as .tune_metadata and kept the marker
C15_Witness ==
    /\ Queried
    /\ \E n, m \in Ckpts :
         /\ at_prune[n] = {is_checkpoint}
         /\ at_query[n] = {}
         /\ at_prune[m] = {is_checkpoint, ".tune_metadata"}
         /\ at_query[m] = at_prune[m]

C20_StopperAnyCallback ==
    /\ spc = "ready" =>
         Len(callbacks) = IF callbacks_arg.none THEN 0 ELSE Len(callbacks_arg.list)
    /\ stop_all_ret # <<>> =>
         LET r == stop_all_ret[1] IN
         /\ r.out <=> \E i \in DOMAIN r.answers : r.answers[i]
         /\ Len(r.answers) = Len(callbacks)
         /\ (callbacks_arg.none \/ callbacks_arg.list = <<>>) => ~r.out
    /\ call_ret # <<>> => ~call_ret[1].out

\* of two callbacks only the second asked to stop: the search is stopped,
\* the trial asked about is not
C20_Witness ==
    /\ stop_all_ret # <<>>
    /\ stop_all_ret[1].answers = <<FALSE, TRUE>>
    /\ stop_all_ret[1].out
    /\ call_ret # <<>>
    /\ ~call_ret[1].out

\* the exception that ended the trial
FailedWith == log[Len(log)].err

\* C21: a trial whose training run ended without returning statistics fails
\* and issues no final report, and in delegated mode the failure of such a
\* trial is the RuntimeError of the statistics check.
C21_NoStatsRuntimeError ==
    /\ wpc = "raised" =>
         /\ dpc # "completed"
         /\ \A i \in 1..Len(log) : log[i].op # "final"
    /\ is_using_ray_backend /\ wpc = "raised" /\ dpc = "failed" =>
         FailedWith = "RuntimeError"

\* C22: when the training run starts, trial_hyperparameters.json exists and
\* holds the trial's sampled hyperparameter values as they were handed to
\* the merge.
C22_SampledValuesWritten ==
    upc = "train" =>
        /\ trial_hyperparameters # <<>>
        /\ json_loads(trial_hyperparameters[1]) = ToDict(merged_params)

\* C23: the configuration handed to the merge holds search-space
\* parameters only: every key callbacks injected has been removed.
C23_InjectedKeysRemoved ==
    upc \in {"write", "assign", "ready", "train", "failed"} =>
        DOMAIN merged_params \subseteq SearchParams

\* C24: set_values(params, model_dict) leaves model_dict with, under every
\* key of params whose value is a mapping, each field of that mapping and
\* the other fields that were there, under every other key of params the
\* value of params, and every other key as it was.
C24_NestedOverlay ==
    vpc # "call" =>
        /\ vpc = "returned"
        /\ \A key \in DOMAIN params :
             IF params[key].kind = "dict"
             THEN \A f \in DOMAIN params[key].fields :
                    /\ key \in DOMAIN model_dict
                    /\ model_dict[key].kind = "dict"
                    /\ f \in DOMAIN model_dict[key].fields
                    /\ model_dict[key].fields[f] = params[key].fields[f]
                    /\ key \in DOMAIN model_dict_before =>
                         \A g \in DOMAIN model_dict_before[key].fields
                                  \ DOMAIN params[key].fields :
                            /\ g \in DOMAIN model_dict[key].fields
                            /\ model_dict[key].fields[g]
                                 = model_dict_before[key].fields[g]
             ELSE key \in DOMAIN model_dict /\ model_dict[key] = params[key]
        /\ \A key \in DOMAIN model_dict_before \ DOMAIN params :
             key \in DOMAIN model_dict /\ model_dict[key] = model_dict_before[key]

\* C25: once the search space is built, a parameter whose values /
\* categories list holds a non-numeric entry at any position has every
\* entry dumped to a string and json.loads registered under its name, and a
\* parameter with numeric entries only is handed on as it is, with no
\* decode function.
C25_EncodeWhenAnyNonNumeric ==
    kpc \in {"sample", "decode", "done"} =>
        \A n \in DOMAIN parameters :
            LET entries == parameters[n].entries IN
            IF \E i \in 1..Len(entries) : ~IsNumeric(entries[i])
            THEN /\ search_space[n].entries
                      = [i \in 1..Len(entries) |-> json_dumps(entries[i])]
                 /\ n \in DOMAIN decode_ctx
                 /\ decode_ctx[n] = "json.loads"
            ELSE /\ search_space[n] = parameters[n]
                 /\ n \notin DOMAIN decode_ctx

\* the kind of the definition names no search space of the scheduler
NoConstructor(values) == ~hasattr_tune(lower(values.space))

\* an argument without default of the kind's constructor is not supplied
MissingArgument(values) ==
    /\ hasattr_tune(lower(values.space))
    /\ \E i \in DOMAIN signature(lower(values.space)) :
         /\ ~signature(lower(values.space))[i].has_default
         /\ signature(lower(values.space))[i].name \notin Supplied(values)

\* C26: building the search space raises ValueError, and no trial is ever
\* sampled, when some parameter's kind names no search space or lacks an
\* argument that has no default; otherwise the search space has one entry
\* per parameter.
C26_SearchSpaceErrors ==
    kpc # "encode" =>
        IF \E n \in DOMAIN parameters :
              NoConstructor(parameters[n]) \/ MissingArgument(parameters[n])
        THEN /\ kpc = "raised"
             /\ search_space_error = "ValueError"
             /\ search_space = <<>>
             /\ config = <<>>
        ELSE /\ kpc # "raised"
             /\ search_space_error = None
             /\ DOMAIN search_space = DOMAIN parameters

\* uniform without its upper bound: the construction raised
C26_Witness ==
    /\ kpc = "raised"
    /\ search_space_error = "ValueError"
    /\ parameters["lr"].space = "uniform"
    /\ parameters["lr"].args = {"lower"}
    /\ ~MissingArgument(parameters["p"])

\* what sits at the end of the metric path under the output feature key:
\* <<>> when a segment is absent, else <<the value>>
RECURSIVE AtPath(_, _)
AtPath(x, parts) ==
    IF parts = <<>> THEN <<x>>
    ELSE IF x.t = "dict" /\ HasKey(x, Head(parts))
    THEN AtPath(GetItem(x, Head(parts)), Tail(parts))
    ELSE <<>>

MetricPath == <<output_feature>> \o metric_parts(metric)

\* C27: get_metric_score_from_eval_stats returns the value at the end of
\* the metric path when every segment is present and the value is an
\* integer or a real number, and fails in every other case.
C27_EvalMetricPath ==
    mpc # "call" =>
        LET found == AtPath(given_stats, MetricPath) IN
        IF found # <<>> /\ found[1].t \in {"int", "float"}
        THEN score_out.ok /\ score_out.v = found[1]
        ELSE ~score_out.ok

\* ---- properties of sort_hyperopt_results
\* xs holds exactly the elements of ys
SameResults(xs, ys) ==
    /\ Len(xs) = Len(ys)
    /\ \A i \in 1..Len(ys) : \E j \in 1..Len(xs) : xs[j] = ys[i]

\* C32 (as claimed): for every executor and every list of trial results,
\* sort_hyperopt_results returns (it does not raise) the same results
\* ordered by metric_score, descending when the executor's goal is maximize
\* and ascending otherwise.
C32_SortedByGoal ==
    qpc # "call" =>
        /\ qpc = "returned"
        /\ SameResults(sort_ret, hyperopt_results)
        /\ \A i, j \in 1..Len(sort_ret) :
             i < j =>
                 IF executor["goal"] = MAXIMIZE
                 THEN sort_ret[i].metric_score >= sort_ret[j].metric_score
                 ELSE sort_ret[i].metric_score <= sort_ret[j].metric_score
====
